---------------------------- MODULE Spec2Model ----------------------------
(***************************************************************************)
(* Model of the hyperspectral cube engine of peppy (peppy/hsi/cube.py):    *)
(* the cube descriptor, the three memory-mapped interleave readers, the    *)
(* flat addressing, the streaming re-interleaver, the wavelength search    *)
(* and the extrema tracking.                                               *)
(*                                                                         *)
(* numpy arrays are sequences (1-based here, 0-based in the code: element  *)
(* p of the code is element p+1 of the model); a 3-D array is a sequence   *)
(* of sequences of sequences in C order, as numpy.reshape lays it out.     *)
(* A `None` of the code that stands where a number may stand is the empty  *)
(* sequence <<>>, and a number v there is <<v>>.                           *)
(***************************************************************************)
EXTENDS Integers, Sequences, FiniteSets, TLC

VARIABLES
    nativeByteOrder,  \* byte order of the host (cube.py 24-27)
    cube,             \* the Cube descriptor
    cube_io,          \* its reader (Cube.cube_io), NoReader when None
    ret,              \* the last call: [op, args, val]
    sink,             \* the blocks written to the file handle by writeRawData
    progressed,       \* the values handed to the progress hook
    copy,             \* the descriptor of the cube loaded back from the sink
    copy_io,          \* its reader
    observed,         \* history: <<min, max>> over the arrays the cooked accessors returned
    explicit          \* history: the offset attributes the header parser assigned, as <<name, value>>

vars == <<nativeByteOrder, cube, cube_io, ret, sink, progressed, copy, copy_io, observed, explicit>>

-----------------------------------------------------------------------------
(* Bounds of the model *)

\* largest number of lines, of samples and of bands of an enumerated cube
MaxDim == 2
\* largest block size handed to the streaming iterator
MaxBlock == 9
\* largest number of bands of a cube enumerated for the wavelength search
MaxBands == 4
\* number of bands of the cube whose wavelengths are 400 + 10*i
RampBands == 17
\* largest file_offset + 1, header_offset and data_offset a header parser assigns
MaxOffset == 2

-----------------------------------------------------------------------------
(* Byte order and data types *)

LittleEndian == 0
BigEndian == 1

DataTypes == {"int8", "int16"}

\* the integer types Cube.guessScaleFactor lists, and the float types
ScaledIntTypes == {"int8", "int16", "int32", "uint16", "uint32", "int64", "uint64"}
FloatTypes == {"float32", "float64"}

\* numpy.empty([1], dtype=data_type).itemsize
ItemSizeOf(data_type) ==
    CASE data_type \in {"int8", "uint8"} -> 1
      [] data_type \in {"int16", "uint16"} -> 2
      [] data_type \in {"int32", "uint32", "float32"} -> 4
      [] OTHER -> 8

Pow256(n) == IF n = 2 THEN 65536 ELSE 256

\* the value numpy reads from the bytes of one element stored in byte order `order`
Decode(bytes, data_type, order) ==
    LET n == ItemSizeOf(data_type)
        u == IF n = 1 THEN bytes[1]
             ELSE IF order = LittleEndian THEN bytes[1] + 256 * bytes[2]
             ELSE bytes[2] + 256 * bytes[1]
    IN IF data_type \notin {"uint8", "uint16"} /\ 2 * u >= Pow256(n) THEN u - Pow256(n) ELSE u

\* the bytes of one element as the array holds them (ndarray.tostring of one item)
Encode(v, data_type, order) ==
    LET n == ItemSizeOf(data_type)
        u == v % Pow256(n)
    IN IF n = 1 THEN <<u>>
       ELSE IF order = LittleEndian THEN <<u % 256, u \div 256>>
       ELSE <<u \div 256, u % 256>>

-----------------------------------------------------------------------------
(* numpy and Python helpers *)

Min2(a, b) == IF a < b THEN a ELSE b

\* Python's seq[a:b] for 0 <= a, b: both ends clamp to the length
PySlice(seq, a, b) == SubSeq(seq, Min2(a, Len(seq)) + 1, Min2(b, Len(seq)))

RECURSIVE Flatten(_)
\* concatenation of a sequence of sequences
Flatten(ss) == IF ss = <<>> THEN <<>> ELSE Head(ss) \o Flatten(Tail(ss))

\* slice.view(data_type).newbyteorder(order): the bytes read as elements
View(bytes, data_type, order) ==
    LET n == ItemSizeOf(data_type)
    IN [k \in 1..(Len(bytes) \div n) |->
           Decode(SubSeq(bytes, (k - 1) * n + 1, k * n), data_type, order)]

\* mutant of Reshape3: the elements taken in Fortran order
Reshape3_Fortran(flat, d0, d1, d2) ==
    [i \in 1..d0 |-> [j \in 1..d1 |-> [k \in 1..d2 |->
        flat[(i - 1) + (j - 1) * d0 + (k - 1) * d0 * d1 + 1]]]]

\* numpy.reshape(flat, (d0, d1, d2)), C order
Reshape3(flat, d0, d1, d2) ==
    [i \in 1..d0 |-> [j \in 1..d1 |-> [k \in 1..d2 |->
        flat[(i - 1) * d1 * d2 + (j - 1) * d2 + k]]]]

\* the transpose of a 2-D array with at least one row
Transpose(m) == [c \in 1..Len(m[1]) |-> [r \in 1..Len(m) |-> m[r][c]]]

\* ndarray.tostring() of a 2-D array: its elements in C order, each as its bytes
ToString2(m, data_type, order) ==
    Flatten([r \in 1..Len(m) |->
        Flatten([c \in 1..Len(m[r]) |-> Encode(m[r][c], data_type, order)])])

\* ndarray.min() and ndarray.max() of a non-empty set of element values
SetMin(S) == CHOOSE x \in S : \A y \in S : x <= y
SetMax(S) == CHOOSE x \in S : \A y \in S : x >= y

Elems1(a) == {a[i] : i \in 1..Len(a)}
Elems2(m) == UNION {Elems1(m[r]) : r \in 1..Len(m)}

-----------------------------------------------------------------------------
(* Results of calls: a value, or the exception the call raised *)

Ok(v) == [ok |-> TRUE, val |-> v]
Raise(e) == [ok |-> FALSE, val |-> e]

NoReader == [cls |-> "None"]
NoCube == [url |-> "None"]
NoCall == [op |-> "none", args |-> <<>>, val |-> Ok(<<>>)]

-----------------------------------------------------------------------------
(* The descriptor: Cube.__init__, initialize, verifyAttributes *)

Interleaves == {"bip", "bil", "bsq"}

\* str.lower() on the interleave tags the model uses
Lower(tag) ==
    CASE tag = "BIP" -> "bip"
      [] tag = "BIL" -> "bil"
      [] tag = "BSQ" -> "bsq"
      [] tag = "Bip" -> "bip"
      [] OTHER -> tag

\* Cube.__init__(filename, interleave) on a host of byte order `native`
NewCube(filename, interleave, native) ==
    [url |-> filename,
     samples |-> -1, lines |-> -1, bands |-> -1,
     interleave |-> Lower(interleave),
     file_date |-> "now",
     file_offset |-> 0, header_offset |-> 0, data_offset |-> 0, data_bytes |-> 0,
     data_type |-> "None",
     byte_order |-> native,
     swap |-> FALSE,
     wavelengths |-> <<>>, bbl |-> <<>>,
     wavelength_units |-> "None",
     scale_factor |-> <<>>,
     itemsize |-> 0,
     spectraextrema |-> << <<>>, <<>> >>]

\* Cube.initializeSizes(datatype, byteorder); an argument is <<>> when omitted
initializeSizes(c, datatype, byteorder) ==
    LET c1 == IF datatype # <<>> THEN [c EXCEPT !.data_type = datatype[1]] ELSE c
        c2 == IF byteorder # <<>> /\ byteorder[1] # 0
              THEN [c1 EXCEPT !.byte_order = byteorder[1]] ELSE c1
        c3 == IF c2.data_type # "None"
              THEN [c2 EXCEPT !.itemsize = ItemSizeOf(c2.data_type)] ELSE c2
    IN IF c3.data_bytes = 0
       THEN [c3 EXCEPT !.data_bytes = c3.itemsize * c3.samples * c3.lines * c3.bands]
       ELSE c3

\* mutant of initializeOffset: the offsets are added to a data_offset already set
initializeOffset_Accumulate(c) ==
    IF c.header_offset > 0 \/ c.file_offset > 0
    THEN [c EXCEPT !.data_offset = c.data_offset + c.file_offset + c.header_offset]
    ELSE c

\* Cube.initializeOffset()
initializeOffset(c) ==
    IF (c.header_offset > 0 \/ c.file_offset > 0) /\ c.data_offset = 0
    THEN [c EXCEPT !.data_offset = c.file_offset + c.header_offset]
    ELSE c

\* Cube.initialize(datatype, byteorder)
initialize(c, datatype, byteorder) ==
    initializeOffset(initializeSizes(c, datatype, byteorder))

\* Cube.guessScaleFactor(): 10000.0 for the integer types, 1.0 otherwise
guessScaleFactor(c) ==
    IF c.data_type \in ScaledIntTypes
    THEN [c EXCEPT !.scale_factor = <<10000>>]
    ELSE IF c.data_type \in FloatTypes
    THEN [c EXCEPT !.scale_factor = <<1>>]
    ELSE [c EXCEPT !.scale_factor = <<1>>]

\* Cube.guessWavelengthUnits()
guessWavelengthUnits(c) ==
    IF c.wavelengths[Len(c.wavelengths)] < 100
    THEN [c EXCEPT !.wavelength_units = "um"]
    ELSE [c EXCEPT !.wavelength_units = "nm"]

\* mutant of verifyAttributes: a missing data type is replaced by int16
verifyAttributes_DefaultType(c) ==
    LET c0 == IF c.data_type = "None" THEN [c EXCEPT !.data_type = "int16"] ELSE c
        c1 == IF c0.scale_factor = <<>> THEN guessScaleFactor(c0) ELSE c0
        c2 == IF c1.bbl = <<>> THEN [c1 EXCEPT !.bbl = [i \in 1..c1.bands |-> 1]] ELSE c1
        c3 == IF Len(c2.wavelengths) > 0 /\ c2.wavelength_units = "None"
              THEN guessWavelengthUnits(c2) ELSE c2
    IN IF c3.url # "None" THEN [c3 EXCEPT !.file_date = "mtime"] ELSE c3

\* Cube.verifyAttributes()
verifyAttributes(c) ==
    LET c1 == IF c.scale_factor = <<>> THEN guessScaleFactor(c) ELSE c
        c2 == IF c1.bbl = <<>> THEN [c1 EXCEPT !.bbl = [i \in 1..c1.bands |-> 1]] ELSE c1
        c3 == IF Len(c2.wavelengths) > 0 /\ c2.wavelength_units = "None"
              THEN guessWavelengthUnits(c2) ELSE c2
    IN IF c3.url # "None" THEN [c3 EXCEPT !.file_date = "mtime"] ELSE c3

-----------------------------------------------------------------------------
(* The readers: MMapCubeReader and its three subclasses *)

\* the shape each subclass's shape() gives the raw array
ShapeOf(cls, c) ==
    CASE cls = "bip" -> <<c.lines, c.samples, c.bands>>
      [] cls = "bil" -> <<c.lines, c.bands, c.samples>>
      [] cls = "bsq" -> <<c.bands, c.lines, c.samples>>

\* MMapCubeReader.open(cube, url): the window of the mapping, viewed as elements
MMapCubeReader_open(c, mmap) ==
    LET slice == IF c.data_offset > 0
                 THEN IF c.data_bytes > 0
                      THEN PySlice(mmap, c.data_offset, c.data_offset + c.data_bytes)
                      ELSE PySlice(mmap, c.data_offset, Len(mmap))
                 ELSE mmap
    IN IF Len(slice) % ItemSizeOf(c.data_type) # 0
       THEN Raise("ValueError")
       ELSE Ok(View(slice, c.data_type, c.byte_order))

\* MMapXXXCubeReader.shape(cube): numpy.reshape, which refuses a wrong size
shape(cls, c, flat) ==
    LET sh == ShapeOf(cls, c)
    IN IF Len(flat) # sh[1] * sh[2] * sh[3]
       THEN Raise("ValueError")
       ELSE Ok(Reshape3(flat, sh[1], sh[2], sh[3]))

\* MMapCubeReader.__init__(cube, url) for a url whose bytes are `mmap`
MMapCubeReader(cls, c, mmap) ==
    LET opened == MMapCubeReader_open(c, mmap)
        shaped == shape(cls, c, opened.val)
    IN IF ~opened.ok THEN opened
       ELSE IF ~shaped.ok THEN shaped
       ELSE Ok([cls |-> cls, mmap |-> mmap, raw |-> shaped.val,
                data_type |-> c.data_type, byte_order |-> c.byte_order,
                lines |-> c.lines, samples |-> c.samples, bands |-> c.bands])

\* bool(array) of the `elif array:` test for a 1-D numpy array, None being <<>> wrapped
\* as `none`: False for None and for an empty array, the truth of the element for an
\* array of one element, and ValueError for an array of more than one element
ArrayTruth(none, flat) ==
    IF none THEN Ok(FALSE)
    ELSE IF Len(flat) = 0 THEN Ok(FALSE)
    ELSE IF Len(flat) = 1 THEN Ok(flat[1] # 0)
    ELSE Raise("ValueError")

\* MMapCubeReader.__init__(cube, array=raw) with no url; `none` when raw is None.
\* The reader's raw stays None, written <<>>, when the array is not adopted.
MMapCubeReader_array(cls, c, none, flat) ==
    LET truth == ArrayTruth(none, flat)
        shaped == shape(cls, c, flat)
        rd == [cls |-> cls, mmap |-> <<>>, raw |-> <<>>,
               data_type |-> c.data_type, byte_order |-> c.byte_order,
               lines |-> c.lines, samples |-> c.samples, bands |-> c.bands]
    IN IF ~truth.ok THEN truth
       ELSE IF ~truth.val THEN Ok(rd)
       ELSE IF ~shaped.ok THEN shaped
       ELSE Ok([rd EXCEPT !.raw = shaped.val])

\* mutant of getMMapCubeReader: an unknown tag selects the BIP reader
getMMapCubeReader_DefaultBIP(interleave) ==
    IF Lower(interleave) \in Interleaves THEN Ok(Lower(interleave)) ELSE Ok("bip")

\* getMMapCubeReader(interleave): the reader class, or TypeError
getMMapCubeReader(interleave) ==
    IF Lower(interleave) \in Interleaves THEN Ok(Lower(interleave)) ELSE Raise("TypeError")

\* mutant of open: a reader whose construction raised is assigned all the same
open_ReaderOnFailure(c, url, mmap) ==
    LET c1 == initialize([c EXCEPT !.url = url], <<>>, <<>>)
        rcls == getMMapCubeReader(c1.interleave)
        rd == MMapCubeReader(rcls.val, c1, mmap)
    IN IF ~rcls.ok THEN [cube |-> c1, cube_io |-> NoReader, err |-> rcls.val]
       ELSE IF ~rd.ok THEN [cube |-> c1, cube_io |-> [cls |-> rcls.val], err |-> rd.val]
       ELSE [cube |-> verifyAttributes(c1), cube_io |-> rd.val, err |-> "none"]

\* Cube.open(url) on a cube with no reader yet, the url holding the bytes `mmap`:
\* the descriptor and the reader it leaves, and the exception if one was raised
open(c, url, mmap) ==
    LET c0 == [c EXCEPT !.url = url]
        c1 == initialize(c0, <<>>, <<>>)
        rcls == getMMapCubeReader(c1.interleave)
        rd == MMapCubeReader(rcls.val, c1, mmap)
    IN IF ~rcls.ok THEN [cube |-> c1, cube_io |-> NoReader, err |-> rcls.val]
       ELSE IF ~rd.ok THEN [cube |-> c1, cube_io |-> NoReader, err |-> rd.val]
       ELSE [cube |-> verifyAttributes(c1), cube_io |-> rd.val, err |-> "none"]

\* numpy.frombuffer(data, datatype): the bytes read as elements in the byte order of
\* the host, which is the byte order of the numpy scalar types
frombuffer(data, datatype, native) ==
    IF Len(data) % ItemSizeOf(datatype) # 0 THEN Raise("ValueError")
    ELSE Ok(View(data, datatype, native))

\* createCube(interleave, lines, samples, bands, datatype, byteorder, scalefactor, data,
\* dummy) on a host of byte order `native`: the cube returned with its reader, or the
\* exception raised. An omitted datatype or data (None) is <<>>, a given one <<x>>.
createCube(interleave, lines, samples, bands, datatype, byteorder, scalefactor, data, dummy, native) ==
    LET dt == IF datatype = <<>> THEN "int16" ELSE datatype[1]
        c0 == [NewCube("None", interleave, native) EXCEPT
                  !.interleave = interleave,
                  !.samples = samples, !.lines = lines, !.bands = bands,
                  !.data_type = dt, !.byte_order = byteorder,
                  !.scale_factor = <<scalefactor>>]
        c1 == initialize(c0, <<dt>>, <<byteorder>>)
        rcls == getMMapCubeReader(interleave)
        given == data # <<>> /\ Len(data[1]) > 0
        raw == IF dummy THEN Ok(<<>>)
               ELSE IF given THEN frombuffer(data[1], dt, native)
               ELSE Ok([i \in 1..(samples * lines * bands) |-> 0])
        rd == MMapCubeReader_array(rcls.val, c1, dummy, raw.val)
        failed(e) == [cube |-> NoCube, cube_io |-> NoReader, val |-> Raise(e)]
    IN IF ~rcls.ok THEN failed(rcls.val)
       ELSE IF ~raw.ok THEN failed(raw.val)
       ELSE IF ~rd.ok THEN failed(rd.val)
       ELSE [cube |-> verifyAttributes(c1), cube_io |-> rd.val, val |-> Ok("cube")]

\* mutant of Cube_open: the reader is rebuilt even when the cube is open already
Cube_open_AlwaysReopen(c, io, url, mmap) ==
    LET c0 == IF url # <<>> THEN [c EXCEPT !.url = url[1]] ELSE c
    IN IF c0.url = "None" THEN [cube |-> c0, cube_io |-> NoReader, err |-> "IOError"]
       ELSE open(c0, c0.url, mmap)

\* Cube.open(url) on a cube whose reader is io, the url resolving to the bytes `mmap`;
\* an omitted url is <<>>
Cube_open(c, io, url, mmap) ==
    LET c0 == IF url # <<>> THEN [c EXCEPT !.url = url[1]] ELSE c
        io0 == IF url # <<>> THEN NoReader ELSE io
    IN IF c0.url = "None" THEN [cube |-> c0, cube_io |-> io0, err |-> "IOError"]
       ELSE IF io0 # NoReader THEN [cube |-> c0, cube_io |-> io0, err |-> "none"]
       ELSE open(c0, c0.url, mmap)

-----------------------------------------------------------------------------
(* The accessors of the three readers *)

\* a[p] of the code for a Python index p: a negative index counts from the end
At(a, p) == a[(IF p < 0 THEN p + Len(a) ELSE p) + 1]

\* whether a[p] is an element of a sequence of length n
InRange(n, p) == p >= 0 - n /\ p < n

BIP_getPixel(io, line, sample, band) == At(At(At(io.raw, line), sample), band)

BIP_getBandRaw(io, band) ==
    [i \in 1..Len(io.raw) |-> [j \in 1..Len(io.raw[i]) |-> At(io.raw[i][j], band)]]

BIP_getSpectraRaw(io, line, sample) == At(At(io.raw, line), sample)

BIP_getFocalPlaneRaw(io, line) == Transpose(At(io.raw, line))

\* mutant of BIP_getFocalPlaneDepthRaw: every element read from the first line
BIP_getFocalPlaneDepthRaw_FirstLine(io, sample, band) ==
    [i \in 1..Len(io.raw) |-> At(At(io.raw[1], sample), band)]

BIP_getFocalPlaneDepthRaw(io, sample, band) ==
    [i \in 1..Len(io.raw) |-> At(At(io.raw[i], sample), band)]

BIP_getLineOfSpectraCopy(io, line) == At(io.raw, line)

BIP_flatToLocation(io, pos) ==
    LET line == pos \div (io.bands * io.samples)
        temp == pos % (io.bands * io.samples)
        sample == temp \div io.bands
        band == temp % io.bands
    IN <<line, sample, band>>

BIP_locationToFlat(io, line, sample, band) ==
    line * io.bands * io.samples + sample * io.bands + band

BIL_getPixel(io, line, sample, band) == At(At(At(io.raw, line), band), sample)

BIL_getBandRaw(io, band) == [i \in 1..Len(io.raw) |-> At(io.raw[i], band)]

BIL_getSpectraRaw(io, line, sample) ==
    [j \in 1..Len(At(io.raw, line)) |-> At(At(io.raw, line)[j], sample)]

BIL_getFocalPlaneRaw(io, line) == At(io.raw, line)

BIL_getFocalPlaneDepthRaw(io, sample, band) ==
    [i \in 1..Len(io.raw) |-> At(At(io.raw[i], band), sample)]

\* mutant of BIL_getLineOfSpectraCopy: the copy of raw[line, :, :] is not transposed
BIL_getLineOfSpectraCopy_NoTranspose(io, line) == At(io.raw, line)

BIL_getLineOfSpectraCopy(io, line) == Transpose(At(io.raw, line))

\* mutant of BIL_flatToLocation: sample and band split as the BIP reader splits them
BIL_flatToLocation_AsBIP(io, pos) ==
    LET line == pos \div (io.bands * io.samples)
        temp == pos % (io.bands * io.samples)
        sample == temp \div io.bands
        band == temp % io.bands
    IN <<line, sample, band>>

BIL_flatToLocation(io, pos) ==
    LET line == pos \div (io.bands * io.samples)
        temp == pos % (io.bands * io.samples)
        band == temp \div io.samples
        sample == temp % io.samples
    IN <<line, sample, band>>

BIL_locationToFlat(io, line, sample, band) ==
    line * io.bands * io.samples + band * io.samples + sample

BSQ_getPixel(io, line, sample, band) == At(At(At(io.raw, band), line), sample)

BSQ_getBandRaw(io, band) == At(io.raw, band)

BSQ_getSpectraRaw(io, line, sample) ==
    [i \in 1..Len(io.raw) |-> At(At(io.raw[i], line), sample)]

BSQ_getFocalPlaneRaw(io, line) == [i \in 1..Len(io.raw) |-> At(io.raw[i], line)]

BSQ_getFocalPlaneDepthRaw(io, sample, band) ==
    [j \in 1..Len(At(io.raw, band)) |-> At(At(io.raw, band)[j], sample)]

BSQ_getLineOfSpectraCopy(io, line) ==
    Transpose([i \in 1..Len(io.raw) |-> At(io.raw[i], line)])

BSQ_flatToLocation(io, pos) ==
    LET band == pos \div (io.lines * io.samples)
        temp == pos % (io.lines * io.samples)
        line == temp \div io.samples
        sample == temp % io.samples
    IN <<line, sample, band>>

BSQ_locationToFlat(io, line, sample, band) ==
    band * io.lines * io.samples + line * io.samples + sample

(* The calls through the reader the cube holds (Python's method dispatch) *)

getPixel(io, line, sample, band) ==
    CASE io.cls = "bip" -> BIP_getPixel(io, line, sample, band)
      [] io.cls = "bil" -> BIL_getPixel(io, line, sample, band)
      [] io.cls = "bsq" -> BSQ_getPixel(io, line, sample, band)

getBandRaw(io, band) ==
    CASE io.cls = "bip" -> BIP_getBandRaw(io, band)
      [] io.cls = "bil" -> BIL_getBandRaw(io, band)
      [] io.cls = "bsq" -> BSQ_getBandRaw(io, band)

getSpectraRaw(io, line, sample) ==
    CASE io.cls = "bip" -> BIP_getSpectraRaw(io, line, sample)
      [] io.cls = "bil" -> BIL_getSpectraRaw(io, line, sample)
      [] io.cls = "bsq" -> BSQ_getSpectraRaw(io, line, sample)

getFocalPlaneRaw(io, line) ==
    CASE io.cls = "bip" -> BIP_getFocalPlaneRaw(io, line)
      [] io.cls = "bil" -> BIL_getFocalPlaneRaw(io, line)
      [] io.cls = "bsq" -> BSQ_getFocalPlaneRaw(io, line)

getFocalPlaneDepthRaw(io, sample, band) ==
    CASE io.cls = "bip" -> BIP_getFocalPlaneDepthRaw(io, sample, band)
      [] io.cls = "bil" -> BIL_getFocalPlaneDepthRaw(io, sample, band)
      [] io.cls = "bsq" -> BSQ_getFocalPlaneDepthRaw(io, sample, band)

getLineOfSpectraCopy(io, line) ==
    CASE io.cls = "bip" -> BIP_getLineOfSpectraCopy(io, line)
      [] io.cls = "bil" -> BIL_getLineOfSpectraCopy(io, line)
      [] io.cls = "bsq" -> BSQ_getLineOfSpectraCopy(io, line)

flatToLocation(io, pos) ==
    CASE io.cls = "bip" -> BIP_flatToLocation(io, pos)
      [] io.cls = "bil" -> BIL_flatToLocation(io, pos)
      [] io.cls = "bsq" -> BSQ_flatToLocation(io, pos)

locationToFlat(io, line, sample, band) ==
    CASE io.cls = "bip" -> BIP_locationToFlat(io, line, sample, band)
      [] io.cls = "bil" -> BIL_locationToFlat(io, line, sample, band)
      [] io.cls = "bsq" -> BSQ_locationToFlat(io, line, sample, band)

-----------------------------------------------------------------------------
(* The cubes the model opens *)

ByteOrders == {LittleEndian, BigEndian}

\* element patterns <<a, m>>: element i of the file is a + i*m, wrapped to the data type
Patterns == {<<0, 1>>, <<-300, 257>>, <<120, -7>>}

\* the geometries <<lines, samples, bands>>: every small one, and the 4 x 5 x 3 cube
Geometries == ((1..MaxDim) \X (1..MaxDim) \X (1..MaxDim)) \cup {<<4, 5, 3>>}

\* the bytes of a file of n elements of pattern pat, written in byte order `order`
FileBytes(pat, n, data_type, order) ==
    Flatten([i \in 1..n |-> Encode(pat[1] + (i - 1) * pat[2], data_type, order)])

\* a descriptor as a header parser leaves it: geometry, data type and byte order set
Parsed(native, interleave, g, data_type, order) ==
    [NewCube("None", interleave, native) EXCEPT
        !.lines = g[1], !.samples = g[2], !.bands = g[3],
        !.data_type = data_type, !.byte_order = order]

\* the flat element sequence a reader's mapping holds
FlatElements(io) == View(io.mmap, io.data_type, io.byte_order)

\* the values of the indices the model calls the accessors with
Indices(n) == 0..(n - 1)

-----------------------------------------------------------------------------
(* Specification SpecView: one raw accessor or addressing call on an opened cube *)

InitView ==
    \E native \in ByteOrders, il \in Interleaves, g \in Geometries,
       dt \in DataTypes, bo \in ByteOrders, pat \in Patterns :
        LET o == open(Parsed(native, il, g, dt, bo), "mem:cube",
                      FileBytes(pat, g[1] * g[2] * g[3], dt, bo))
        IN /\ nativeByteOrder = native
           /\ cube = o.cube
           /\ cube_io = o.cube_io
           /\ ret = NoCall
           /\ sink = <<>>
           /\ progressed = <<>>
           /\ copy = NoCube
           /\ copy_io = NoReader
           /\ observed = << <<>>, <<>> >>
           /\ explicit = {}

\* the call `op(args)` returning or raising `val`; nothing else changes
Called(op, args, val) ==
    /\ ret.op = "none"
    /\ cube_io # NoReader
    /\ ret' = [op |-> op, args |-> args, val |-> val]
    /\ UNCHANGED <<nativeByteOrder, cube, cube_io, sink, progressed, copy, copy_io, observed, explicit>>

\* Cube.getPixel(line, sample, band)
GetPixel ==
    \E l \in Indices(cube.lines), s \in Indices(cube.samples), b \in Indices(cube.bands) :
        Called("getPixel", <<l, s, b>>,
               IF InRange(cube.lines, l) /\ InRange(cube.samples, s) /\ InRange(cube.bands, b)
               THEN Ok(getPixel(cube_io, l, s, b)) ELSE Raise("IndexError"))

\* Cube.getBandRaw(band)
GetBandRaw ==
    \E b \in Indices(cube.bands) :
        Called("getBandRaw", <<b>>,
               IF InRange(cube.bands, b)
               THEN Ok(getBandRaw(cube_io, b)) ELSE Raise("IndexError"))

\* Cube.getSpectraRaw(line, sample)
GetSpectraRaw ==
    \E l \in Indices(cube.lines), s \in Indices(cube.samples) :
        Called("getSpectraRaw", <<l, s>>,
               IF InRange(cube.lines, l) /\ InRange(cube.samples, s)
               THEN Ok(getSpectraRaw(cube_io, l, s)) ELSE Raise("IndexError"))

\* Cube.getFocalPlaneRaw(line)
GetFocalPlaneRaw ==
    \E l \in Indices(cube.lines) :
        Called("getFocalPlaneRaw", <<l>>,
               IF InRange(cube.lines, l)
               THEN Ok(getFocalPlaneRaw(cube_io, l)) ELSE Raise("IndexError"))

\* Cube.getFocalPlaneDepthRaw(sample, band)
GetFocalPlaneDepthRaw ==
    \E s \in Indices(cube.samples), b \in Indices(cube.bands) :
        Called("getFocalPlaneDepthRaw", <<s, b>>,
               IF InRange(cube.samples, s) /\ InRange(cube.bands, b)
               THEN Ok(getFocalPlaneDepthRaw(cube_io, s, b)) ELSE Raise("IndexError"))

\* Cube.getLineOfSpectraCopy(line)
GetLineOfSpectraCopy ==
    \E l \in Indices(cube.lines) :
        Called("getLineOfSpectraCopy", <<l>>,
               IF InRange(cube.lines, l)
               THEN Ok(getLineOfSpectraCopy(cube_io, l)) ELSE Raise("IndexError"))

\* Cube.locationToFlat(line, sample, band)
LocationToFlat ==
    \E l \in Indices(cube.lines), s \in Indices(cube.samples), b \in Indices(cube.bands) :
        Called("locationToFlat", <<l, s, b>>, Ok(locationToFlat(cube_io, l, s, b)))

\* the reader's flatToLocation(pos)
FlatToLocation ==
    \E pos \in Indices(cube.lines * cube.samples * cube.bands) :
        Called("flatToLocation", <<pos>>, Ok(flatToLocation(cube_io, pos)))

NextView ==
    \/ GetPixel
    \/ GetBandRaw
    \/ GetSpectraRaw
    \/ GetFocalPlaneRaw
    \/ GetFocalPlaneDepthRaw
    \/ GetLineOfSpectraCopy
    \/ LocationToFlat
    \/ FlatToLocation

SpecView == InitView /\ [][NextView]_vars

-----------------------------------------------------------------------------
(* The streaming re-interleaver: iterRawBIP/BIL/BSQ, iterRaw, getRawIterator, writeRawData *)

\* mutant of iterRawBIP: the focal plane is not transposed
iterRawBIP_NoTranspose(c, io) ==
    [i \in 1..c.lines |->
        ToString2(getFocalPlaneRaw(io, i - 1), io.data_type, io.byte_order)]

\* Cube.iterRawBIP(): per line, the bytes of the transposed focal plane
iterRawBIP(c, io) ==
    [i \in 1..c.lines |->
        ToString2(Transpose(getFocalPlaneRaw(io, i - 1)), io.data_type, io.byte_order)]

\* Cube.iterRawBIL(): per line, the bytes of the focal plane
iterRawBIL(c, io) ==
    [i \in 1..c.lines |->
        ToString2(getFocalPlaneRaw(io, i - 1), io.data_type, io.byte_order)]

\* Cube.iterRawBSQ(): per band, the bytes of the band
iterRawBSQ(c, io) ==
    [i \in 1..c.bands |->
        ToString2(getBandRaw(io, i - 1), io.data_type, io.byte_order)]

RECURSIVE iterRawWhile_WholeBlock(_, _, _, _, _, _)
\* mutant of iterRawWhile: a block is completed with `size` bytes, not with the unfilled rest
iterRawWhile_WholeBlock(bytes, bi, fh, i, size, out) ==
    LET count == Len(bytes)
        remaining_bytes == count - bi
        unfilled == size - i
    IN IF ~(bi < count) THEN [fh |-> fh, i |-> i, out |-> out]
       ELSE IF remaining_bytes < unfilled
       THEN [fh |-> fh \o PySlice(bytes, bi, count), i |-> i + remaining_bytes, out |-> out]
       ELSE iterRawWhile_WholeBlock(bytes, bi + unfilled, <<>>, 0, size,
                                    Append(out, fh \o PySlice(bytes, bi, bi + size)))

RECURSIVE iterRawWhile(_, _, _, _, _, _)
\* the `while bi < count` loop of Cube.iterRaw from position bi of one chunk `bytes`,
\* with buffer fh holding i bytes and the blocks `out` yielded so far
iterRawWhile(bytes, bi, fh, i, size, out) ==
    LET count == Len(bytes)
        remaining_bytes == count - bi
        unfilled == size - i
    IN IF ~(bi < count) THEN [fh |-> fh, i |-> i, out |-> out]
       ELSE IF remaining_bytes < unfilled
       THEN [fh |-> fh \o PySlice(bytes, bi, count), i |-> i + remaining_bytes, out |-> out]
       ELSE iterRawWhile(bytes, bi + unfilled, <<>>, 0, size,
                         Append(out, fh \o PySlice(bytes, bi, bi + unfilled)))

RECURSIVE iterRawFor(_, _, _, _, _, _)
\* the `for bytes in interleaveiter()` loop of Cube.iterRaw from chunk k on
iterRawFor(chunks, k, fh, i, size, out) ==
    IF k > Len(chunks) THEN [fh |-> fh, i |-> i, out |-> out]
    ELSE LET bytes == chunks[k]
             count == Len(bytes)
         IN IF i + count < size
            THEN iterRawFor(chunks, k + 1, fh \o bytes, i + count, size, out)
            ELSE LET w == iterRawWhile(bytes, 0, fh, i, size, out)
                 IN iterRawFor(chunks, k + 1, w.fh, w.i, size, w.out)

\* mutant of iterRaw: the leftover is not yielded
iterRaw_NoFlush(size, chunks) == iterRawFor(chunks, 1, <<>>, 0, size, <<>>).out

\* mutant of iterRaw: the leftover is yielded even when it is empty
iterRaw_AlwaysFlush(size, chunks) ==
    LET f == iterRawFor(chunks, 1, <<>>, 0, size, <<>>)
    IN Append(f.out, f.fh)

\* Cube.iterRaw(size, interleaveiter): the sequence of the blocks it yields
iterRaw(size, chunks) ==
    LET f == iterRawFor(chunks, 1, <<>>, 0, size, <<>>)
        leftover == f.fh
    IN IF Len(leftover) > 0 THEN Append(f.out, leftover) ELSE f.out

\* Cube.getRawIterator(block_size, interleave): the blocks, or None (<<>>) wrapped as a result;
\* an omitted interleave is <<>>
getRawIterator(c, io, block_size, interleave) ==
    LET tag == Lower(IF interleave = <<>> THEN c.interleave ELSE interleave[1])
    IN CASE tag = "bip" -> Ok(iterRaw(block_size, iterRawBIP(c, io)))
         [] tag = "bil" -> Ok(iterRaw(block_size, iterRawBIL(c, io)))
         [] tag = "bsq" -> Ok(iterRaw(block_size, iterRawBSQ(c, io)))
         [] OTHER -> Raise("None")

\* the values Cube.writeRawData hands to the progress hook for n blocks
ProgressValues(n, num_blocks) == [count \in 1..n |-> ((count - 1) * 100) \div num_blocks]

\* Cube.writeRawData(fh, options, progress, block_size): what is written to fh, what the
\* progress hook is called with, and the exception if one is raised; the interleave
\* option is <<>> when options does not hold it
writeRawData(c, io, interleave, progress, block_size) ==
    LET tag == IF interleave = <<>> THEN c.interleave ELSE interleave[1]
        num_blocks == (c.data_bytes \div block_size) + 1
        iterator == getRawIterator(c, io, block_size, <<tag>>)
    IN IF iterator.ok
       THEN [written |-> iterator.val,
             progressed |-> IF progress THEN ProgressValues(Len(iterator.val), num_blocks)
                            ELSE <<>>,
             val |-> Ok(<<>>)]
       ELSE [written |-> <<>>, progressed |-> <<>>, val |-> Raise("ValueError")]

-----------------------------------------------------------------------------
(* Specification SpecStream: one writeRawData on an opened cube, and the load of the
   written bytes as a cube of the target interleave *)

\* the interleave tags handed to writeRawData
TargetTags == Interleaves \cup {"BIP", "unknown"}

InitStream == InitView

\* Cube.writeRawData(fh, options, progress, block_size)
WriteRawData ==
    \E block_size \in 1..MaxBlock, progress \in BOOLEAN,
       interleave \in {<<>>} \cup {<<tag>> : tag \in TargetTags} :
        LET w == writeRawData(cube, cube_io, interleave, progress, block_size)
        IN /\ ret.op = "none"
           /\ cube_io # NoReader
           /\ sink' = w.written
           /\ progressed' = w.progressed
           /\ ret' = [op |-> "writeRawData",
                      args |-> <<block_size, interleave, progress>>, val |-> w.val]
           /\ UNCHANGED <<nativeByteOrder, cube, cube_io, copy, copy_io, observed, explicit>>

\* the interleave writeRawData wrote the sink in
WrittenInterleave ==
    Lower(IF ret.args[2] = <<>> THEN cube.interleave ELSE ret.args[2][1])

\* the written bytes opened (Cube.open) as a cube of the written interleave with the
\* geometry, data type and byte order of the source
Load ==
    /\ ret.op = "writeRawData"
    /\ ret.val.ok
    /\ copy = NoCube
    /\ LET o == open(Parsed(nativeByteOrder, WrittenInterleave,
                            <<cube.lines, cube.samples, cube.bands>>,
                            cube.data_type, cube.byte_order),
                     "mem:copy", Flatten(sink))
       IN /\ copy' = o.cube
          /\ copy_io' = o.cube_io
    /\ UNCHANGED <<nativeByteOrder, cube, cube_io, ret, sink, progressed, observed, explicit>>

NextStream ==
    \/ WriteRawData
    \/ Load

SpecStream == InitStream /\ [][NextStream]_vars

-----------------------------------------------------------------------------
(* The wavelength search: normalizeUnits, getBandListByWavelength, guessDisplayBands.
   A wavelength the code holds as a float is the exact fraction n/d here, d > 0, and
   the comparisons of the code are made on cross-multiplied integers. *)

\* utils.units_scale, relative to the nanometre
units_scale(units) == IF units = "um" THEN 1000 ELSE 1

\* Cube.normalizeUnits(val, units): val*theseunits/cubeunits, as the fraction n/d
normalizeUnits(c, val, units) ==
    IF c.wavelength_units = "None"
    THEN [n |-> val, d |-> 1]
    ELSE [n |-> val * units_scale(units), d |-> units_scale(c.wavelength_units)]

\* the comparisons of a band's wavelength w with the fraction q
WlGeq(w, q) == w * q.d >= q.n
WlLeq(w, q) == w * q.d <= q.n
WlLess(w, q) == w * q.d < q.n
WlGreater(w, q) == w * q.d > q.n

\* mutant of InWindow: the bad band list is not consulted
InWindow_IgnoreBbl(c, channel, lo, hi) ==
    /\ WlGeq(c.wavelengths[channel + 1], lo)
    /\ WlLeq(c.wavelengths[channel + 1], hi)

\* the test of the first loop of getBandListByWavelength on one channel
InWindow(c, channel, lo, hi) ==
    /\ c.bbl[channel + 1] = 1
    /\ WlGeq(c.wavelengths[channel + 1], lo)
    /\ WlLeq(c.wavelengths[channel + 1], hi)

\* the channels of range(bands) that pass Test, in ascending order
RECURSIVE ChannelsFrom(_, _, _)
ChannelsFrom(channel, bands, keep) ==
    IF channel >= bands THEN <<>>
    ELSE (IF channel \in keep THEN <<channel>> ELSE <<>>)
         \o ChannelsFrom(channel + 1, bands, keep)

\* the fallback of getBandListByWavelength when no band is in the window
NearestBand(c, lo, hi) ==
    LET center == [n |-> hi.n + lo.n, d |-> 2 * lo.d]
        wl == c.wavelengths
        good == {ch \in 0..(c.bands - 1) : c.bbl[ch + 1] = 1}
        between == {ch \in 0..(c.bands - 2) :
                       /\ c.bbl[ch + 1] = 1
                       /\ WlLess(wl[ch + 1], center)
                       /\ WlGreater(wl[ch + 2], center)}
    IN IF WlGreater(wl[1], center)
       THEN IF good = {} THEN <<>> ELSE <<SetMin(good)>>
       ELSE IF WlLess(wl[c.bands], center)
       THEN IF good = {} THEN <<>> ELSE <<SetMax(good)>>
       ELSE IF between = {} THEN <<>>
       ELSE LET channel == SetMin(between)
            IN IF 2 * center.n < (wl[channel + 1] + wl[channel + 2]) * center.d
               THEN <<channel>>
               ELSE <<channel + 1>>

\* Cube.getBandListByWavelength(wavelen_min, wavelen_max, units); wavelen_max is -1
\* when omitted
getBandListByWavelength(c, wavelen_min, wavelen_max, units) ==
    LET mx == IF wavelen_max < 0 THEN wavelen_min ELSE wavelen_max
        lo == normalizeUnits(c, wavelen_min, units)
        hi == normalizeUnits(c, mx, units)
        bandlist == ChannelsFrom(0, c.bands,
                        {ch \in 0..(c.bands - 1) : InWindow(c, ch, lo, hi)})
    IN IF Len(c.wavelengths) = 0 THEN <<>>
       ELSE IF bandlist # <<>> THEN bandlist
       ELSE NearestBand(c, lo, hi)

\* Cube.guessDisplayBands(): the band list, or the IndexError of taking [0] of an
\* empty list
guessDisplayBands(c) ==
    IF c.bands >= 3 /\ Len(c.wavelengths) > 0
    THEN LET found == [k \in 1..3 |->
                 getBandListByWavelength(c, <<660, 550, 440>>[k], -1, "nm")]
         IN IF \E k \in 1..3 : found[k] = <<>>
            THEN Raise("IndexError")
            ELSE LET bands == [k \in 1..3 |-> found[k][1]]
                 IN IF bands[1] = bands[2] /\ bands[2] = bands[3]
                    THEN Ok(<<bands[1]>>)
                    ELSE Ok(bands)
    ELSE Ok(<<0>>)

-----------------------------------------------------------------------------
(* Specification SpecWave: one wavelength query on a cube with wavelengths and a bad
   band list *)

\* the wavelengths the enumerated cubes draw from
WlGrid == {330, 440, 550, 660, 770, 880}

\* the wavelength lists of a cube of B bands: none, the strictly increasing lists over
\* the grid, and the micrometre-sized list 1, 2, ...
WavelengthLists(B) ==
    {<<>>}
    \cup {w \in [1..B -> WlGrid] : \A i \in 1..(B - 1) : w[i] < w[i + 1]}
    \cup {[i \in 1..B |-> i]}

\* the bad band lists of a cube of B bands: none, or any list of 0 and 1
BblLists(B) == {<<>>} \cup [1..B -> {0, 1}]

\* the cube whose wavelengths are 400 + 10*i
RampWavelengths == [i \in 1..RampBands |-> 400 + 10 * (i - 1)]

\* the cubes: <<bands, wavelengths, bbl>>
WaveCubes ==
    {<<B, w, m>> : B \in 1..MaxBands, w \in UNION {WavelengthLists(n) : n \in 1..MaxBands},
                   m \in UNION {BblLists(n) : n \in 1..MaxBands}}

WaveCases ==
    {x \in WaveCubes : Len(x[2]) \in {0, x[1]} /\ Len(x[3]) \in {0, x[1]}}
    \cup {<<RampBands, RampWavelengths, <<>> >>}

\* the queries: [min, max, hasMax, units]; max is the default -1 when omitted
QueryNm == {-5, 300, 440, 495, 500, 550, 660, 2000}
QueryUm == {1, 2}

Queries ==
    {[min |-> mn, max |-> mx, hasMax |-> TRUE, units |-> "nm"] : mn \in QueryNm, mx \in QueryNm}
    \cup {[min |-> mn, max |-> -1, hasMax |-> FALSE, units |-> "nm"] : mn \in QueryNm}
    \cup {[min |-> mn, max |-> mx, hasMax |-> TRUE, units |-> "um"] : mn \in QueryUm, mx \in QueryUm}
    \cup {[min |-> mn, max |-> -1, hasMax |-> FALSE, units |-> "um"] : mn \in QueryUm}

\* a cube of the case x: its wavelengths, bad bands and units set by the header parser
\* before open, or (late) wavelengths and bad bands assigned after open
InitWave ==
    \E x \in WaveCases, units \in {"None", "nm", "um"}, late \in BOOLEAN :
        LET g == <<1, 1, x[1]>>
            base == Parsed(LittleEndian, "bip", g, "int16", LittleEndian)
            parsed == IF late THEN base
                      ELSE [base EXCEPT !.wavelengths = x[2], !.bbl = x[3],
                                        !.wavelength_units = units]
            o == open(parsed, "mem:cube", FileBytes(<<0, 1>>, x[1], "int16", LittleEndian))
        IN /\ late => units = "None"
           /\ nativeByteOrder = LittleEndian
           /\ cube = IF late
                     THEN [o.cube EXCEPT !.wavelengths = x[2],
                                         !.bbl = IF x[3] = <<>> THEN @ ELSE x[3]]
                     ELSE o.cube
           /\ cube_io = o.cube_io
           /\ ret = NoCall
           /\ sink = <<>>
           /\ progressed = <<>>
           /\ copy = NoCube
           /\ copy_io = NoReader
           /\ observed = << <<>>, <<>> >>
           /\ explicit = {}

\* Cube.getBandListByWavelength(min, max, units)
GetBandListByWavelength ==
    \E q \in Queries :
        Called("getBandListByWavelength", q,
               Ok(getBandListByWavelength(cube, q.min, q.max, q.units)))

\* Cube.guessDisplayBands()
GuessDisplayBands == Called("guessDisplayBands", <<>>, guessDisplayBands(cube))

NextWave ==
    \/ GetBandListByWavelength
    \/ GuessDisplayBands

SpecWave == InitWave /\ [][NextWave]_vars

-----------------------------------------------------------------------------
(* The cooked accessors and the extrema: updateExtrema, getBand, getSpectra,
   getLineOfSpectra, getFocalPlaneInPlace *)

\* mutant of updateExtrema: the extrema are those of the last array
updateExtrema_Overwrite(c, elems) ==
    [c EXCEPT !.spectraextrema = << <<SetMin(elems)>>, <<SetMax(elems)>> >>]

\* Cube.updateExtrema(spectra) for an array of the elements elems
updateExtrema(c, elems) ==
    LET mn == SetMin(elems)
        mx == SetMax(elems)
        e0 == c.spectraextrema[1]
        e1 == c.spectraextrema[2]
    IN [c EXCEPT !.spectraextrema =
           << IF e0 = <<>> \/ mn < e0[1] THEN <<mn>> ELSE e0,
              IF e1 = <<>> \/ mx > e1[1] THEN <<mx>> ELSE e1 >>]

\* ndarray.byteswap() on one element
ByteSwap(v, data_type) == Decode(Encode(v, data_type, LittleEndian), data_type, BigEndian)

\* Cube.getBandInPlace(band): the raw band, the extrema widened by it
getBandInPlace(c, io, band) ==
    LET s == getBandRaw(io, band)
    IN [cube |-> updateExtrema(c, Elems2(s)), io |-> io, val |-> s]

\* Cube.getBand(band): a copy of the band, byte-swapped if cube.swap
getBand(c, io, band) ==
    LET r == getBandInPlace(c, io, band)
    IN [cube |-> r.cube, io |-> r.io,
        val |-> IF c.swap
                THEN [i \in 1..Len(r.val) |-> [j \in 1..Len(r.val[i]) |->
                         ByteSwap(r.val[i][j], io.data_type)]]
                ELSE r.val]

\* Cube.getFocalPlaneInPlace(line): the raw focal plane, the extrema widened by it
getFocalPlaneInPlace(c, io, line) ==
    LET s == getFocalPlaneRaw(io, line)
    IN [cube |-> updateExtrema(c, Elems2(s)), io |-> io, val |-> s]

\* mutant of getSpectra: the spectrum is not multiplied by bbl
getSpectra_NoMask(c, io, line, sample) ==
    LET raw == getSpectraRaw(io, line, sample)
    IN [cube |-> updateExtrema(c, Elems1(raw)), io |-> io, val |-> raw]

\* the location <<line, sample, band>> of raw[i][j][k] (0-based) in the shape of each reader
RawLocation(cls, i, j, k) ==
    CASE cls = "bip" -> <<i, j, k>>
      [] cls = "bil" -> <<i, k, j>>
      [] cls = "bsq" -> <<j, k, i>>

\* `spectra *= bbl` on a spectra that is a view of raw at (line, sample), not a copy:
\* the reader afterwards
SpectraTimesInPlace(io, line, sample, bbl) ==
    [io EXCEPT !.raw =
        [i \in 1..Len(io.raw) |-> [j \in 1..Len(io.raw[i]) |-> [k \in 1..Len(io.raw[i][j]) |->
            LET loc == RawLocation(io.cls, i - 1, j - 1, k - 1)
            IN IF loc[1] = line /\ loc[2] = sample
               THEN io.raw[i][j][k] * bbl[loc[3] + 1]
               ELSE io.raw[i][j][k]]]]]

\* mutant of getSpectra: the spectrum is multiplied by bbl in place, without the copy
getSpectra_NoCopy(c, io, line, sample) ==
    LET raw == getSpectraRaw(io, line, sample)
        spectra == [b \in 1..Len(raw) |-> raw[b] * c.bbl[b]]
    IN [cube |-> updateExtrema(c, Elems1(spectra)),
        io |-> SpectraTimesInPlace(io, line, sample, c.bbl), val |-> spectra]

\* Cube.getSpectra(line, sample): a copy of the spectrum, byte-swapped if cube.swap,
\* multiplied by bbl, the extrema widened by the result
getSpectra(c, io, line, sample) ==
    LET raw == getSpectraRaw(io, line, sample)
        swapped == IF c.swap THEN [b \in 1..Len(raw) |-> ByteSwap(raw[b], io.data_type)]
                   ELSE raw
        spectra == [b \in 1..Len(swapped) |-> swapped[b] * c.bbl[b]]
    IN [cube |-> updateExtrema(c, Elems1(spectra)), io |-> io, val |-> spectra]

\* Cube.getLineOfSpectra(line): the reader's copy of the spectra of the line,
\* byte-swapped if cube.swap, multiplied by bbl along its last axis, the extrema widened
getLineOfSpectra(c, io, line) ==
    LET raw == getLineOfSpectraCopy(io, line)
        swapped == IF c.swap
                   THEN [i \in 1..Len(raw) |-> [b \in 1..Len(raw[i]) |->
                            ByteSwap(raw[i][b], io.data_type)]]
                   ELSE raw
        spectra == [i \in 1..Len(swapped) |-> [b \in 1..Len(swapped[i]) |->
                       swapped[i][b] * c.bbl[b]]]
    IN [cube |-> updateExtrema(c, Elems2(spectra)), io |-> io, val |-> spectra]

-----------------------------------------------------------------------------
(* Specification SpecExtrema: any sequence of cooked accessor calls on an opened cube *)

\* the data the cubes of SpecExtrema hold: <<data type, byte order, pattern>>
ExtremaData ==
    {<<"int16", LittleEndian, <<0, 1>> >>, <<"int16", BigEndian, <<-300, 257>> >>,
     <<"int8", LittleEndian, <<120, -7>> >>}

InitExtrema ==
    \E il \in Interleaves, g \in (1..MaxDim) \X (1..MaxDim) \X (1..MaxDim), d \in ExtremaData,
       m \in UNION {BblLists(n) : n \in 1..MaxDim} :
        LET parsed == [Parsed(LittleEndian, il, g, d[1], d[2]) EXCEPT !.bbl = m]
            o == open(parsed, "mem:cube", FileBytes(d[3], g[1] * g[2] * g[3], d[1], d[2]))
        IN /\ Len(m) \in {0, g[3]}
           /\ nativeByteOrder = LittleEndian
           /\ cube = o.cube
           /\ cube_io = o.cube_io
           /\ ret = NoCall
           /\ sink = <<>>
           /\ progressed = <<>>
           /\ copy = NoCube
           /\ copy_io = NoReader
           /\ observed = << <<>>, <<>> >>
           /\ explicit = {}

\* the minimum and maximum over the arrays returned so far, one more array returned
Observe(obs, elems) ==
    << IF obs[1] = <<>> \/ SetMin(elems) < obs[1][1] THEN <<SetMin(elems)>> ELSE obs[1],
       IF obs[2] = <<>> \/ SetMax(elems) > obs[2][1] THEN <<SetMax(elems)>> ELSE obs[2] >>

\* the call `op(args)` with outcome r = [cube, io, val]; `cooked` when the array it returns
\* is one the claim observes
Accessed(op, args, r, elems, cooked) ==
    /\ cube_io # NoReader
    /\ cube' = r.cube
    /\ cube_io' = r.io
    /\ ret' = [op |-> op, args |-> args, val |-> Ok(r.val)]
    /\ observed' = IF cooked THEN Observe(observed, elems) ELSE observed
    /\ UNCHANGED <<nativeByteOrder, sink, progressed, copy, copy_io, explicit>>

\* Cube.getBand(band)
GetBand ==
    \E b \in Indices(cube.bands) :
        LET r == getBand(cube, cube_io, b)
        IN Accessed("getBand", <<b>>, r, Elems2(r.val), TRUE)

\* Cube.getSpectra(line, sample)
GetSpectra ==
    \E l \in Indices(cube.lines), s \in Indices(cube.samples) :
        LET r == getSpectra(cube, cube_io, l, s)
        IN Accessed("getSpectra", <<l, s>>, r, Elems1(r.val), TRUE)

\* Cube.getLineOfSpectra(line)
GetLineOfSpectra ==
    \E l \in Indices(cube.lines) :
        LET r == getLineOfSpectra(cube, cube_io, l)
        IN Accessed("getLineOfSpectra", <<l>>, r, Elems2(r.val), TRUE)

\* Cube.getFocalPlaneInPlace(line)
GetFocalPlaneInPlace ==
    \E l \in Indices(cube.lines) :
        LET r == getFocalPlaneInPlace(cube, cube_io, l)
        IN Accessed("getFocalPlaneInPlace", <<l>>, r, Elems2(r.val), FALSE)

NextExtrema ==
    \/ GetBand
    \/ GetSpectra
    \/ GetLineOfSpectra
    \/ GetFocalPlaneInPlace

SpecExtrema == InitExtrema /\ [][NextExtrema]_vars

-----------------------------------------------------------------------------
(* Specification SpecRead: one raw accessor or one writeRawData, then any sequence of
   cooked accessor calls, on a 1 x 2 x 2 cube *)

InitRead ==
    \E il \in Interleaves, m \in BblLists(2) :
        LET parsed == [Parsed(LittleEndian, il, <<1, 2, 2>>, "int16", LittleEndian)
                          EXCEPT !.bbl = m]
            o == open(parsed, "mem:cube", FileBytes(<<-300, 257>>, 4, "int16", LittleEndian))
        IN /\ nativeByteOrder = LittleEndian
           /\ cube = o.cube
           /\ cube_io = o.cube_io
           /\ ret = NoCall
           /\ sink = <<>>
           /\ progressed = <<>>
           /\ copy = NoCube
           /\ copy_io = NoReader
           /\ observed = << <<>>, <<>> >>
           /\ explicit = {}

NextRead ==
    \/ GetPixel
    \/ GetBandRaw
    \/ GetSpectraRaw
    \/ GetFocalPlaneRaw
    \/ GetFocalPlaneDepthRaw
    \/ WriteRawData
    \/ GetBand
    \/ GetSpectra
    \/ GetLineOfSpectra
    \/ GetFocalPlaneInPlace

SpecRead == InitRead /\ [][NextRead]_vars

-----------------------------------------------------------------------------
(* The calls of Cube.getPixel and Cube.getSpectra as results: the value, or the
   exception Python raises *)

\* Cube.getPixel(line, sample, band) through the reader io
Cube_getPixel(io, line, sample, band) ==
    IF io = NoReader THEN Raise("AttributeError")
    ELSE IF io.raw = <<>> THEN Raise("TypeError")
    ELSE IF InRange(io.lines, line) /\ InRange(io.samples, sample) /\ InRange(io.bands, band)
    THEN Ok(getPixel(io, line, sample, band))
    ELSE Raise("IndexError")

\* Cube.getSpectra(line, sample): the array returned
Cube_getSpectra(c, io, line, sample) ==
    IF io = NoReader THEN Raise("AttributeError")
    ELSE IF io.raw = <<>> THEN Raise("TypeError")
    ELSE IF ~(InRange(io.lines, line) /\ InRange(io.samples, sample)) THEN Raise("IndexError")
    ELSE IF Len(c.bbl) # io.bands THEN Raise("ValueError")
    ELSE Ok(getSpectra(c, io, line, sample).val)

-----------------------------------------------------------------------------
(* Specification SpecCreate: one createCube call *)

\* the interleave tags handed to createCube
CreateTags == Interleaves \cup {"BIL", "unknown"}

\* the data handed to createCube for L*S*B = n elements: none, or the bytes of a pattern
\* written in the byte order the call names
CreateData(n, dt, byteorder) ==
    {<<>>} \cup {<<FileBytes(pat, n, dt, byteorder)>> : pat \in Patterns}

InitCreate ==
    /\ nativeByteOrder \in ByteOrders
    /\ cube = NoCube
    /\ cube_io = NoReader
    /\ ret = NoCall
    /\ sink = <<>>
    /\ progressed = <<>>
    /\ copy = NoCube
    /\ copy_io = NoReader
    /\ observed = << <<>>, <<>> >>
    /\ explicit = {}

\* createCube(interleave, lines, samples, bands, datatype, byteorder, data=data,
\* dummy=dummy)
CreateCube ==
    \E interleave \in CreateTags, g \in (1..MaxDim) \X (1..MaxDim) \X (1..MaxDim),
       datatype \in {<<>>} \cup {<<dt>> : dt \in DataTypes}, byteorder \in ByteOrders,
       dummy \in BOOLEAN :
        \E data \in CreateData(g[1] * g[2] * g[3],
                               IF datatype = <<>> THEN "int16" ELSE datatype[1], byteorder) :
            LET r == createCube(interleave, g[1], g[2], g[3], datatype, byteorder, 10000,
                                data, dummy, nativeByteOrder)
            IN /\ ret.op = "none"
               /\ cube = NoCube
               /\ cube' = r.cube
               /\ cube_io' = r.cube_io
               /\ ret' = [op |-> "createCube",
                          args |-> [interleave |-> interleave, lines |-> g[1],
                                    samples |-> g[2], bands |-> g[3], datatype |-> datatype,
                                    byteorder |-> byteorder, data |-> data, dummy |-> dummy],
                          val |-> r.val]
               /\ UNCHANGED <<nativeByteOrder, sink, progressed, copy, copy_io, observed, explicit>>

NextCreate == CreateCube

SpecCreate == InitCreate /\ [][NextCreate]_vars

-----------------------------------------------------------------------------
(* Specification SpecLife: a descriptor as a header parser populated it, then
   initialize calls, or one verifyAttributes, or one open and further opens of the
   cube it left open *)

\* the data types a header parser assigns; "None" when it assigns none
LifeTypes == {"int8", "int16", "uint8", "float32", "None"}

\* the data types whose files the model decodes
OpenTypes == {"int8", "int16", "uint8"}

\* the descriptors that vary in their offsets and sizes
OffsetCases ==
    [native : ByteOrders, url : {"None"}, interleave : {"BIL"}, g : {<<1, 2, 2>>},
     dt : {"int16", "None"}, bo : ByteOrders,
     fo : 0..(MaxOffset - 1), ho : 0..MaxOffset,
     doff : {<<>>} \cup {<<v>> : v \in 0..MaxOffset}, dbytes : BOOLEAN,
     bbl : {<<>>}, sf : {<<>>}, wl : {<<>>}, wu : {"None"}]

\* the descriptors that vary in their url, interleave, data type, bad bands and scale
AttributeCases ==
    UNION {[native : {LittleEndian}, url : {"None", "mem:cube"},
            interleave : {"bip", "BIL", "bsq", "unknown"}, g : {gg},
            dt : LifeTypes, bo : {LittleEndian},
            fo : {0}, ho : {0}, doff : {<<>>}, dbytes : {FALSE},
            bbl : BblLists(gg[3]), sf : {<<>>, <<1>>}, wl : {<<>>}, wu : {"None"}] :
           gg \in {<<1, 2, 2>>, <<2, 1, 1>>}}

\* the descriptors that vary in their wavelengths and wavelength units
UnitCases ==
    [native : {LittleEndian}, url : {"None", "mem:cube"}, interleave : {"bip"},
     g : {<<1, 2, 2>>}, dt : {"int16"}, bo : {LittleEndian},
     fo : {0}, ho : {0}, doff : {<<>>}, dbytes : {FALSE},
     bbl : {<<>>}, sf : {<<>>}, wl : {<<1, 2>>, <<440, 550>>}, wu : {"None", "nm"}]

LifeCases == OffsetCases \cup AttributeCases \cup UnitCases

\* Cube.__init__ and the assignments of the header parser for the case x
LifeParsed(x) ==
    [NewCube(x.url, x.interleave, x.native) EXCEPT
        !.lines = x.g[1], !.samples = x.g[2], !.bands = x.g[3],
        !.data_type = x.dt, !.byte_order = x.bo,
        !.file_offset = x.fo, !.header_offset = x.ho,
        !.data_offset = IF x.doff = <<>> THEN @ ELSE x.doff[1],
        !.data_bytes = IF x.dbytes THEN 2 * x.g[1] * x.g[2] * x.g[3] ELSE @,
        !.bbl = x.bbl, !.scale_factor = x.sf,
        !.wavelengths = x.wl, !.wavelength_units = x.wu]

\* the offset attributes the header parser assigned in the case x
LifeExplicit(x) ==
    (IF x.doff = <<>> THEN {} ELSE {<<"data_offset", x.doff[1]>>})
    \cup (IF x.doff = <<>> \/ x.fo > 0 \/ x.ho > 0
          THEN {<<"file_offset", x.fo>>, <<"header_offset", x.ho>>} ELSE {})

\* whether the header parser assigned the attribute
Assigned(name) == \E a \in explicit : a[1] = name

InitLife ==
    \E x \in LifeCases :
        /\ nativeByteOrder = x.native
        /\ cube = LifeParsed(x)
        /\ cube_io = NoReader
        /\ ret = NoCall
        /\ sink = <<>>
        /\ progressed = <<>>
        /\ copy = NoCube
        /\ copy_io = NoReader
        /\ observed = << <<>>, <<>> >>
        /\ explicit = LifeExplicit(x)

\* Cube.initialize(datatype, byteorder), first or after other initialize calls
Initialize ==
    \E datatype \in {<<>>, <<"int16">>}, byteorder \in {<<>>} \cup {<<o>> : o \in ByteOrders} :
        /\ ret.op \in {"none", "initialize"}
        /\ cube' = initialize(cube, datatype, byteorder)
        /\ ret' = [op |-> "initialize", args |-> <<datatype, byteorder>>, val |-> Ok(<<>>)]
        /\ UNCHANGED <<nativeByteOrder, cube_io, sink, progressed, copy, copy_io, observed, explicit>>

\* Cube.verifyAttributes()
VerifyAttributes ==
    /\ ret.op = "none"
    /\ cube' = verifyAttributes(cube)
    /\ ret' = [op |-> "verifyAttributes", args |-> <<>>, val |-> Ok(<<>>)]
    /\ UNCHANGED <<nativeByteOrder, cube_io, sink, progressed, copy, copy_io, observed, explicit>>

\* the bytes of the file the url resolves to: `pad` bytes, the elements of the cube in
\* its data type and byte order, and `trail` more bytes
LifeFile(c, pad, trail) ==
    [i \in 1..pad |-> 255]
    \o FileBytes(<<-300, 257>>, c.lines * c.samples * c.bands, c.data_type, c.byte_order)
    \o [i \in 1..trail |-> 170 + i]

\* Cube.open(url) on a descriptor of a data type the model decodes
Open ==
    \E url \in {<<>>, <<"mem:cube">>}, pad \in 0..(MaxOffset + 1), trail \in 0..MaxOffset :
        LET mmap == LifeFile(cube, pad, trail)
            o == Cube_open(cube, cube_io, url, mmap)
        IN /\ ret.op = "none"
           /\ cube # NoCube
           /\ cube.data_type \in OpenTypes
           /\ cube' = o.cube
           /\ cube_io' = o.cube_io
           /\ ret' = [op |-> "open", args |-> <<url, mmap>>,
                      val |-> IF o.err = "none" THEN Ok(<<>>) ELSE Raise(o.err)]
           /\ UNCHANGED <<nativeByteOrder, sink, progressed, copy, copy_io, observed, explicit>>

\* Cube.open(url) on a cube that an earlier open left open, the file holding the cube at
\* data_offset and `trail` bytes after it by now
Reopen ==
    \E url \in {<<>>, <<"mem:cube">>}, trail \in 0..MaxOffset :
        LET mmap == LifeFile(cube, cube.data_offset, trail)
            o == Cube_open(cube, cube_io, url, mmap)
        IN /\ ret.op = "open"
           /\ cube_io # NoReader
           /\ cube' = o.cube
           /\ cube_io' = o.cube_io
           /\ ret' = [op |-> "open", args |-> <<url, mmap>>,
                      val |-> IF o.err = "none" THEN Ok(<<>>) ELSE Raise(o.err)]
           /\ UNCHANGED <<nativeByteOrder, sink, progressed, copy, copy_io, observed, explicit>>

NextLife ==
    \/ Initialize
    \/ VerifyAttributes
    \/ Open
    \/ Reopen

SpecLife == InitLife /\ [][NextLife]_vars

-----------------------------------------------------------------------------
(* Specification SpecAssign: a fresh descriptor whose geometry and data type are
   assigned in any order, with initialize called any number of times in between *)

InitAssign ==
    /\ nativeByteOrder = LittleEndian
    /\ cube = NewCube("None", "bip", LittleEndian)
    /\ cube_io = NoReader
    /\ ret = NoCall
    /\ sink = <<>>
    /\ progressed = <<>>
    /\ copy = NoCube
    /\ copy_io = NoReader
    /\ observed = << <<>>, <<>> >>
    /\ explicit = {}

\* cube.lines = v, cube.samples = v or cube.bands = v, by the owner of the descriptor
AssignGeometry ==
    \E name \in {"lines", "samples", "bands"}, v \in 1..MaxDim :
        /\ cube' = CASE name = "lines" -> [cube EXCEPT !.lines = v]
                     [] name = "samples" -> [cube EXCEPT !.samples = v]
                     [] name = "bands" -> [cube EXCEPT !.bands = v]
        /\ UNCHANGED <<nativeByteOrder, cube_io, ret, sink, progressed, copy, copy_io, observed, explicit>>

\* cube.data_type = v, by the owner of the descriptor
AssignDataType ==
    \E v \in DataTypes :
        /\ cube' = [cube EXCEPT !.data_type = v]
        /\ UNCHANGED <<nativeByteOrder, cube_io, ret, sink, progressed, copy, copy_io, observed, explicit>>

NextAssign ==
    \/ AssignGeometry
    \/ AssignDataType
    \/ Initialize

SpecAssign == InitAssign /\ [][NextAssign]_vars

-----------------------------------------------------------------------------
(* Specification SpecIndex: one accessor or addressing call with indices inside and
   outside the geometry *)

\* the indices the calls are made with: from one below -n to n
AnyIndices(n) == (0 - n - 1)..n

InitIndex ==
    \E il \in Interleaves, g \in (1..MaxDim) \X (1..MaxDim) \X (1..MaxDim), bo \in ByteOrders :
        LET o == open(Parsed(LittleEndian, il, g, "int16", bo), "mem:cube",
                      FileBytes(<<-300, 257>>, g[1] * g[2] * g[3], "int16", bo))
        IN /\ nativeByteOrder = LittleEndian
           /\ cube = o.cube
           /\ cube_io = o.cube_io
           /\ ret = NoCall
           /\ sink = <<>>
           /\ progressed = <<>>
           /\ copy = NoCube
           /\ copy_io = NoReader
           /\ observed = << <<>>, <<>> >>
           /\ explicit = {}

\* Cube.getPixel(line, sample, band) with any indices
GetPixelAny ==
    \E l \in AnyIndices(cube.lines), s \in AnyIndices(cube.samples),
       b \in AnyIndices(cube.bands) :
        Called("getPixel", <<l, s, b>>, Cube_getPixel(cube_io, l, s, b))

\* Cube.getBandRaw(band) with any index
GetBandRawAny ==
    \E b \in AnyIndices(cube.bands) :
        Called("getBandRaw", <<b>>,
               IF InRange(cube.bands, b)
               THEN Ok(getBandRaw(cube_io, b)) ELSE Raise("IndexError"))

\* Cube.getSpectraRaw(line, sample) with any indices
GetSpectraRawAny ==
    \E l \in AnyIndices(cube.lines), s \in AnyIndices(cube.samples) :
        Called("getSpectraRaw", <<l, s>>,
               IF InRange(cube.lines, l) /\ InRange(cube.samples, s)
               THEN Ok(getSpectraRaw(cube_io, l, s)) ELSE Raise("IndexError"))

\* Cube.getFocalPlaneRaw(line) with any index
GetFocalPlaneRawAny ==
    \E l \in AnyIndices(cube.lines) :
        Called("getFocalPlaneRaw", <<l>>,
               IF InRange(cube.lines, l)
               THEN Ok(getFocalPlaneRaw(cube_io, l)) ELSE Raise("IndexError"))

\* Cube.getFocalPlaneDepthRaw(sample, band) with any indices
GetFocalPlaneDepthRawAny ==
    \E s \in AnyIndices(cube.samples), b \in AnyIndices(cube.bands) :
        Called("getFocalPlaneDepthRaw", <<s, b>>,
               IF InRange(cube.samples, s) /\ InRange(cube.bands, b)
               THEN Ok(getFocalPlaneDepthRaw(cube_io, s, b)) ELSE Raise("IndexError"))

\* the reader's flatToLocation(pos) with any position
FlatToLocationAny ==
    \E pos \in AnyIndices(cube.lines * cube.samples * cube.bands) :
        Called("flatToLocation", <<pos>>, Ok(flatToLocation(cube_io, pos)))

NextIndex ==
    \/ GetPixelAny
    \/ GetBandRawAny
    \/ GetSpectraRawAny
    \/ GetFocalPlaneRawAny
    \/ GetFocalPlaneDepthRawAny
    \/ FlatToLocationAny

SpecIndex == InitIndex /\ [][NextIndex]_vars

-----------------------------------------------------------------------------
(* Specification SpecTag: the three consumers of an interleave tag, each from the
   states it is called in: createCube, open on a populated descriptor, and
   writeRawData on an opened cube *)

InitTag ==
    \/ InitCreate
    \/ InitLife
    \/ InitIndex

NextTag ==
    \/ CreateCube
    \/ Open
    \/ WriteRawData

SpecTag == InitTag /\ [][NextTag]_vars

-----------------------------------------------------------------------------
(* Claims about the views and the addressing, under SpecView *)

\* C1: flat round trip. For each reader and every in-range (l, s, b),
\* flatToLocation(locationToFlat(l, s, b)) is (l, s, b) again.
C1_FlatRoundTrip ==
    (ret.op = "locationToFlat" /\ ret.val.ok) =>
        flatToLocation(cube_io, ret.val.val) = ret.args

\* C1 witness: on the BIL 4 x 5 x 3 cube, location (3, 4, 2) was converted to its flat index
C1_Witness ==
    /\ ret.op = "locationToFlat"
    /\ cube_io.cls = "bil"
    /\ <<cube.lines, cube.samples, cube.bands>> = <<4, 5, 3>>
    /\ ret.args = <<3, 4, 2>>
    /\ ret.val = Ok(59)

\* the flat index the claim C2 names for each interleave
C2_LocToFlat(cls, L, S, B, l, s, b) ==
    CASE cls = "bip" -> l * B * S + s * B + b
      [] cls = "bil" -> l * B * S + b * S + s
      [] cls = "bsq" -> b * L * S + l * S + s

\* C2: getPixel(l, s, b) is the element of the flat sequence the cube is built over
\* at l*B*S + s*B + b (BIP), l*B*S + b*S + s (BIL), b*L*S + l*S + s (BSQ).
C2_PixelIsFlatElement ==
    (ret.op = "getPixel" /\ ret.val.ok) =>
        ret.val.val = FlatElements(cube_io)[
            C2_LocToFlat(cube_io.cls, cube.lines, cube.samples, cube.bands,
                         ret.args[1], ret.args[2], ret.args[3]) + 1]

\* C2 witness: with the elements 0..59 in a BSQ 4 x 5 x 3 cube, getPixel(0, 0, 1) returned 20
C2_Witness ==
    /\ ret.op = "getPixel"
    /\ cube_io.cls = "bsq"
    /\ <<cube.lines, cube.samples, cube.bands>> = <<4, 5, 3>>
    /\ FlatElements(cube_io) = [i \in 1..60 |-> i - 1]
    /\ ret.args = <<0, 0, 1>>
    /\ ret.val = Ok(20)

\* whether m is a 2-D array of `rows` rows of `cols` elements
C3_HasShape(m, rows, cols) ==
    /\ Len(m) = rows
    /\ \A r \in 1..rows : Len(m[r]) = cols

\* C3: the raw views agree with getPixel: getBandRaw(b)[l][s], getSpectraRaw(l, s)[b],
\* getFocalPlaneRaw(l)[b][s] and getFocalPlaneDepthRaw(s, b)[l] are all getPixel(l, s, b).
C3_ViewsAgree ==
    LET L == cube.lines
        S == cube.samples
        B == cube.bands
        v == ret.val.val
        a == ret.args
    IN /\ (ret.op = "getBandRaw" /\ ret.val.ok) =>
              /\ C3_HasShape(v, L, S)
              /\ \A l \in 0..(L - 1), s \in 0..(S - 1) :
                     v[l + 1][s + 1] = getPixel(cube_io, l, s, a[1])
       /\ (ret.op = "getSpectraRaw" /\ ret.val.ok) =>
              /\ Len(v) = B
              /\ \A b \in 0..(B - 1) : v[b + 1] = getPixel(cube_io, a[1], a[2], b)
       /\ (ret.op = "getFocalPlaneRaw" /\ ret.val.ok) =>
              /\ C3_HasShape(v, B, S)
              /\ \A b \in 0..(B - 1), s \in 0..(S - 1) :
                     v[b + 1][s + 1] = getPixel(cube_io, a[1], s, b)
       /\ (ret.op = "getFocalPlaneDepthRaw" /\ ret.val.ok) =>
              /\ Len(v) = L
              /\ \A l \in 0..(L - 1) : v[l + 1] = getPixel(cube_io, l, a[1], a[2])

\* C3 witness: the focal plane of line 1 of a BIP 4 x 5 x 3 cube of distinct elements was read
C3_Witness ==
    /\ ret.op = "getFocalPlaneRaw"
    /\ ret.val.ok
    /\ cube_io.cls = "bip"
    /\ <<cube.lines, cube.samples, cube.bands>> = <<4, 5, 3>>
    /\ FlatElements(cube_io) = [i \in 1..60 |-> i - 1]
    /\ ret.args = <<1>>
    /\ ret.val.val[3][5] = 29

-----------------------------------------------------------------------------
(* Claims about the streaming re-interleaver, under SpecStream *)

\* C4: interleave transcoding round trip. The blocks streamed in interleave J, loaded as
\* a cube of interleave J with the same geometry and data type, give a cube with the
\* same getPixel(l, s, b) at every coordinate, for every source interleave and block size.
C4_TranscodeRoundTrip ==
    copy # NoCube =>
        /\ copy_io # NoReader
        /\ copy_io.cls = WrittenInterleave
        /\ \A l \in 0..(cube.lines - 1), s \in 0..(cube.samples - 1),
              b \in 0..(cube.bands - 1) :
               getPixel(copy_io, l, s, b) = getPixel(cube_io, l, s, b)

\* C4 witness: a BIP 4 x 5 x 3 cube of the elements 0..59 was streamed as BSQ in blocks
\* of 7 bytes and loaded back
C4_Witness ==
    /\ copy # NoCube
    /\ cube_io.cls = "bip"
    /\ copy_io.cls = "bsq"
    /\ <<cube.lines, cube.samples, cube.bands>> = <<4, 5, 3>>
    /\ FlatElements(cube_io) = [i \in 1..60 |-> i - 1]
    /\ ret.args[1] = 7
    /\ getPixel(copy_io, 1, 0, 0) = 15

\* the location whose element stands at flat position p of a file in interleave cls
C5_FlatToLoc(cls, L, S, B, p) ==
    CASE cls = "bip" -> <<p \div (S * B), (p % (S * B)) \div B, p % B>>
      [] cls = "bil" -> <<p \div (S * B), p % S, (p % (S * B)) \div S>>
      [] cls = "bsq" -> <<(p % (L * S)) \div S, p % S, p \div (L * S)>>

\* the bytes of a well-formed file holding the cube's pixels in interleave cls
C5_CanonicalBytes(cls) ==
    Flatten([p \in 1..(cube.lines * cube.samples * cube.bands) |->
        LET loc == C5_FlatToLoc(cls, cube.lines, cube.samples, cube.bands, p - 1)
        IN Encode(getPixel(cube_io, loc[1], loc[2], loc[3]),
                  cube.data_type, cube.byte_order)])

\* C5: the concatenation of the blocks writeRawData writes, in the order written, is the
\* canonical byte layout of the target interleave, whatever the block size.
C5_BlocksAreCanonical ==
    (ret.op = "writeRawData" /\ ret.val.ok) =>
        Flatten(sink) = C5_CanonicalBytes(WrittenInterleave)

\* C5 witness: a BSQ int16 cube of 2 lines, samples and bands was written as BIP in
\* blocks of 3 bytes, which cut elements and atomic units
C5_Witness ==
    /\ ret.op = "writeRawData"
    /\ ret.val.ok
    /\ cube_io.cls = "bsq"
    /\ WrittenInterleave = "bip"
    /\ cube.data_type = "int16"
    /\ <<cube.lines, cube.samples, cube.bands>> = <<2, 2, 2>>
    /\ ret.args[1] = 3
    /\ Len(sink) = 6

\* C6: every block written has exactly block_size bytes, except the last, which has
\* between 1 and block_size bytes.
C6_BlockLengths ==
    (ret.op = "writeRawData" /\ ret.val.ok) =>
        /\ \A k \in 1..(Len(sink) - 1) : Len(sink[k]) = ret.args[1]
        /\ Len(sink) > 0 =>
               (Len(sink[Len(sink)]) >= 1 /\ Len(sink[Len(sink)]) <= ret.args[1])

\* C6 witness: 120 bytes streamed in blocks of 7, a size that neither divides the
\* atomic unit of 40 bytes nor the total: 17 full blocks and a last block of 1 byte
C6_Witness ==
    /\ ret.op = "writeRawData"
    /\ ret.val.ok
    /\ cube.data_bytes = 120
    /\ WrittenInterleave = "bsq"
    /\ ret.args[1] = 7
    /\ Len(sink) = 18
    /\ Len(sink[18]) = 1

-----------------------------------------------------------------------------
(* Claims about the wavelength search, under SpecWave *)

\* the normalised window of the last query: [min, max], or [min, min] with max omitted
C7_Lo == normalizeUnits(cube, ret.args.min, ret.args.units)
C7_Hi ==
    normalizeUnits(cube, IF ret.args.hasMax THEN ret.args.max ELSE ret.args.min,
                   ret.args.units)

\* the good bands whose wavelength lies in the window
C7_Window ==
    {b \in 0..(cube.bands - 1) :
        /\ cube.bbl[b + 1] = 1
        /\ WlGeq(cube.wavelengths[b + 1], C7_Lo)
        /\ WlLeq(cube.wavelengths[b + 1], C7_Hi)}

\* whether the cube is the all-good cube of wavelengths 400 + 10*i, in nm or no unit
C7_IsRamp ==
    /\ cube.wavelengths = RampWavelengths
    /\ cube.wavelength_units # "um"
    /\ cube.bbl = [i \in 1..RampBands |-> 1]

\* C7: wavelength window selection. When some band with bbl = 1 has its wavelength in
\* [min, max] (in [min, min] with max omitted), getBandListByWavelength returns exactly
\* those bands in ascending order; with wavelengths 400 + 10*i, (500, 550) gives 10..15,
\* (300) gives the first band and (2000) the last.
C7_WindowSelection ==
    (ret.op = "getBandListByWavelength" /\ Len(cube.wavelengths) > 0) =>
        LET v == ret.val.val
            a == ret.args
        IN /\ C7_Window # {} =>
                  /\ Len(v) = Cardinality(C7_Window)
                  /\ \A i \in 1..Len(v) : v[i] \in C7_Window
                  /\ \A i \in 1..(Len(v) - 1) : v[i] < v[i + 1]
           /\ (C7_IsRamp /\ a.units = "nm") =>
                  /\ (a.hasMax /\ a.min = 500 /\ a.max = 550) => v = <<10, 11, 12, 13, 14, 15>>
                  /\ (~a.hasMax /\ a.min = 300) => v = <<0>>
                  /\ (~a.hasMax /\ a.min = 2000) => v = <<RampBands - 1>>

\* C7 witness: a window over several bands of which one is bad: the query (440, 660) on
\* the wavelengths 330, 440, 550, 660 with band 2 (550) bad returned bands 1 and 3
C7_Witness ==
    /\ ret.op = "getBandListByWavelength"
    /\ cube.wavelengths = <<330, 440, 550, 660>>
    /\ cube.bbl = <<1, 1, 0, 1>>
    /\ ret.args = [min |-> 440, max |-> 660, hasMax |-> TRUE, units |-> "nm"]
    /\ ret.val = Ok(<<1, 3>>)

\* twice the centre of the window, as a fraction
C8_Center == [n |-> C7_Hi.n + C7_Lo.n, d |-> 2 * C7_Lo.d]

\* the distance of band b's wavelength from the centre, times the centre's denominator
C8_Dist(b) ==
    LET x == cube.wavelengths[b + 1] * C8_Center.d - C8_Center.n
    IN IF x < 0 THEN 0 - x ELSE x

C8_Good == {b \in 0..(cube.bands - 1) : cube.bbl[b + 1] = 1}

\* whether b is a band closest to the centre: among all bands, or among the good ones
C8_Closest(b) ==
    \/ \A o \in 0..(cube.bands - 1) : C8_Dist(b) <= C8_Dist(o)
    \/ b \in C8_Good /\ \A o \in C8_Good : C8_Dist(b) <= C8_Dist(o)

\* C8: empty-window fallback. When no good band lies in the window the result has one
\* element: the first good band if the centre is below the first wavelength, the last
\* good band if it is above the last wavelength, else the band closest to the centre
\* (also when the centre equals a band's wavelength). Stated for min <= max and a cube
\* with at least one good band.
C8_EmptyWindowFallback ==
    (/\ ret.op = "getBandListByWavelength"
     /\ Len(cube.wavelengths) > 0
     /\ C8_Good # {}
     /\ C7_Lo.n <= C7_Hi.n
     /\ C7_Window = {}) =>
        LET v == ret.val.val
        IN /\ Len(v) = 1
           /\ IF WlGreater(cube.wavelengths[1], C8_Center)
              THEN v[1] = SetMin(C8_Good)
              ELSE IF WlLess(cube.wavelengths[cube.bands], C8_Center)
              THEN v[1] = SetMax(C8_Good)
              ELSE C8_Closest(v[1])

\* the band lists C9 allows for a target wavelength in nm: a band closest to it
C9_Nearest(target, b) ==
    LET q == normalizeUnits(cube, target, "nm")
        dist(o) == LET x == cube.wavelengths[o + 1] * q.d - q.n
                   IN IF x < 0 THEN 0 - x ELSE x
    IN \/ \A o \in 0..(cube.bands - 1) : dist(b) <= dist(o)
       \/ b \in C8_Good /\ \A o \in C8_Good : dist(b) <= dist(o)

\* C9: guessDisplayBands returns the bands nearest 660, 550 and 440 nm in that order when
\* bands >= 3 and wavelengths are present, a single band when the three are the same
\* band, and [0] in every other case (stated for cubes with at least one good band).
C9_GuessDisplayBands ==
    (ret.op = "guessDisplayBands" /\ C8_Good # {}) =>
        /\ ret.val.ok
        /\ LET v == ret.val.val
           IN IF cube.bands >= 3 /\ Len(cube.wavelengths) > 0
              THEN \/ /\ Len(v) = 3
                      /\ C9_Nearest(660, v[1])
                      /\ C9_Nearest(550, v[2])
                      /\ C9_Nearest(440, v[3])
                      /\ ~(v[1] = v[2] /\ v[2] = v[3])
                   \/ /\ Len(v) = 1
                      /\ C9_Nearest(660, v[1])
                      /\ C9_Nearest(550, v[1])
                      /\ C9_Nearest(440, v[1])
              ELSE v = <<0>>

-----------------------------------------------------------------------------
(* Claims about the extrema, under SpecExtrema *)

\* the extrema bound every element the cooked accessors returned so far
C10_Bounds ==
    observed # << <<>>, <<>> >> =>
        /\ cube.spectraextrema[1] # <<>>
        /\ cube.spectraextrema[2] # <<>>
        /\ cube.spectraextrema[1][1] <= observed[1][1]
        /\ cube.spectraextrema[2][1] >= observed[2][1]

\* one step: the minimum does not increase, the maximum does not decrease, and the
\* first update adopts the minimum and maximum of the array returned
C10_Step ==
    /\ cube.spectraextrema[1] # <<>> =>
           /\ cube'.spectraextrema[1] # <<>>
           /\ cube'.spectraextrema[1][1] <= cube.spectraextrema[1][1]
    /\ cube.spectraextrema[2] # <<>> =>
           /\ cube'.spectraextrema[2] # <<>>
           /\ cube'.spectraextrema[2][1] >= cube.spectraextrema[2][1]
    /\ (cube.spectraextrema = << <<>>, <<>> >> /\ observed' # << <<>>, <<>> >>) =>
           cube'.spectraextrema = observed'

\* C10: extrema monotonicity. From (None, None), after any sequence of getBand,
\* getSpectra and getLineOfSpectra calls the extrema's min is <= and its max >= every
\* element of every array returned so far; min never increases, max never decreases,
\* and the first update adopts the min and max of the slice.
C10_ExtremaMonotone == [](C10_Bounds) /\ [][C10_Step]_vars

\* C10 witness: after several calls the extrema are strictly wider on both sides than
\* the array the last cooked accessor returned, a spectrum with a masked band
C10_Witness ==
    /\ ret.op = "getSpectra"
    /\ \E b \in 1..cube.bands : cube.bbl[b] = 0
    /\ cube.spectraextrema[1] # <<>>
    /\ cube.spectraextrema[1][1] < SetMin(Elems1(ret.val.val))
    /\ cube.spectraextrema[2][1] > SetMax(Elems1(ret.val.val))
    /\ cube.spectraextrema = observed

\* C20: getSpectra(l, s) returns a vector v of length B with
\* v[b] = getPixel(l, s, b) * bbl[b] for every band b, for all three interleaves.
C20_SpectrumIsMaskedPixels ==
    (ret.op = "getSpectra" /\ ret.val.ok) =>
        LET v == ret.val.val
            l == ret.args[1]
            s == ret.args[2]
        IN /\ Len(v) = cube.bands
           /\ \A b \in 0..(cube.bands - 1) :
                  v[b + 1] = getPixel(cube_io, l, s, b) * cube.bbl[b + 1]

\* C20 witness: on a BSQ cube of two bands with bbl = [0, 1], getSpectra returned 0 for
\* band 0 and the stored non-zero value for band 1
C20_Witness ==
    /\ ret.op = "getSpectra"
    /\ cube_io.cls = "bsq"
    /\ cube.bbl = <<0, 1>>
    /\ getPixel(cube_io, ret.args[1], ret.args[2], 0) # 0
    /\ ret.val.val[1] = 0
    /\ ret.val.val[2] = getPixel(cube_io, ret.args[1], ret.args[2], 1)
    /\ ret.val.val[2] # 0

-----------------------------------------------------------------------------
(* Claims about createCube, under SpecCreate *)

\* the data of the last createCube call, written in the byte order of the host instead
C11_HostOrderData ==
    LET a == ret.args
        dt == IF a.datatype = <<>> THEN "int16" ELSE a.datatype[1]
        elems == View(a.data[1], dt, a.byteorder)
    IN Flatten([i \in 1..Len(elems) |-> Encode(elems[i], dt, nativeByteOrder)])

\* the cube createCube builds from the same values stored in the byte order of the host
C11_HostOrderCube ==
    LET a == ret.args
    IN createCube(a.interleave, a.lines, a.samples, a.bands, a.datatype, nativeByteOrder,
                  10000, <<C11_HostOrderData>>, a.dummy, nativeByteOrder)

\* C11: byte-order neutrality of createCube. A cube built by createCube from data stored
\* in a byte order, with byte_order naming that order, returns from getPixel and
\* getSpectra the values a cube built from the same values in host byte order returns.
C11_CreateNeutral ==
    (ret.op = "createCube" /\ ret.args.data # <<>> /\ ~ret.args.dummy) =>
        /\ ret.val.ok = C11_HostOrderCube.val.ok
        /\ ret.val.ok =>
               \A l \in Indices(ret.args.lines), s \in Indices(ret.args.samples) :
                   /\ Cube_getSpectra(cube, cube_io, l, s)
                        = Cube_getSpectra(C11_HostOrderCube.cube, C11_HostOrderCube.cube_io, l, s)
                   /\ \A b \in Indices(ret.args.bands) :
                          Cube_getPixel(cube_io, l, s, b)
                            = Cube_getPixel(C11_HostOrderCube.cube_io, l, s, b)

-----------------------------------------------------------------------------
(* Claims about the descriptor's life cycle, under SpecLife *)

\* the integer data types: signed and unsigned, of 8, 16, 32 and 64 bits
C12_IntegerTypes == {"int8", "int16", "int32", "int64", "uint8", "uint16", "uint32", "uint64"}

\* what one verifyAttributes call does to scale_factor and bbl, as the claim C12 states it
C12_Step ==
    (ret.op = "none" /\ ret'.op = "verifyAttributes") =>
        /\ cube.scale_factor = <<>> =>
               cube'.scale_factor = IF cube.data_type \in C12_IntegerTypes
                                    THEN <<10000>> ELSE <<1>>
        /\ cube.scale_factor # <<>> => cube'.scale_factor = cube.scale_factor
        /\ cube.bbl = <<>> => cube'.bbl = [i \in 1..cube.bands |-> 1]
        /\ cube.bbl # <<>> => cube'.bbl = cube.bbl

\* C12: verifyAttributes substitutes defaults only for missing values: a scale_factor
\* of None becomes 10000.0 for an integer data type and 1.0 for a float or unknown one,
\* an empty bbl becomes `bands` ones, and a value already set is left unchanged.
C12_VerifyDefaults == [][C12_Step]_vars

\* C13: initialize is idempotent. After initialize(datatype, byteorder), a second call
\* with the same arguments leaves itemsize, data_bytes, data_offset, data_type and
\* byte_order as the first call left them.
C13_InitializeIdempotent ==
    ret.op = "initialize" =>
        LET again == initialize(cube, ret.args[1], ret.args[2])
        IN /\ again.itemsize = cube.itemsize
           /\ again.data_bytes = cube.data_bytes
           /\ again.data_offset = cube.data_offset
           /\ again.data_type = cube.data_type
           /\ again.byte_order = cube.byte_order

\* C13 witness: initialize(int16, BigEndian) derived data_bytes 8 from the 1 x 2 x 2
\* geometry and data_offset 3 from file_offset 1 and header_offset 2
C13_Witness ==
    /\ ret.op = "initialize"
    /\ ret.args = << <<"int16">>, <<BigEndian>> >>
    /\ ~Assigned("data_offset")
    /\ cube.file_offset = 1
    /\ cube.header_offset = 2
    /\ cube.data_offset = 3
    /\ cube.itemsize = 2
    /\ cube.data_bytes = 8

\* C14: after initialize, data_offset is file_offset + header_offset when the header
\* parser did not assign data_offset, and a data_offset the parser assigned (any value
\* from 0 up) is preserved.
C14_DataOffset ==
    ret.op = "initialize" =>
        /\ ~Assigned("data_offset") =>
               cube.data_offset = cube.file_offset + cube.header_offset
        /\ \A a \in explicit : a[1] = "data_offset" => cube.data_offset = a[2]

\* the window of the mapping the claim C15 names for the opened descriptor
C15_Window ==
    LET mmap == ret.args[2]
    IN IF cube.data_bytes > 0
       THEN PySlice(mmap, cube.data_offset, cube.data_offset + cube.data_bytes)
       ELSE PySlice(mmap, cube.data_offset, Len(mmap))

\* C15: on open the reader's data is the window [data_offset, data_offset + data_bytes)
\* of the mapping when data_bytes > 0 and [data_offset, end) otherwise, for every
\* data_offset >= 0: the open succeeds when that window holds lines*samples*bands
\* elements, and the reader's elements are then the elements of that window.
C15_OpenWindow ==
    (ret.op = "open" /\ cube.url # "None" /\ Lower(cube.interleave) \in Interleaves) =>
        /\ Len(C15_Window) = cube.itemsize * cube.lines * cube.samples * cube.bands
               => ret.val.ok
        /\ ret.val.ok =>
               Flatten(Flatten(cube_io.raw))
                   = View(C15_Window, cube.data_type, cube.byte_order)

\* C19: the reader is None in every state before a successful open. A populated
\* descriptor has no reader, whatever initialize or verifyAttributes calls were made;
\* open() with no url bound and none given raises and leaves the reader None; an open
\* that fails while the reader is constructed leaves the reader None.
C19_NoReaderBeforeOpen ==
    /\ ret.op \in {"none", "initialize", "verifyAttributes"} => cube_io = NoReader
    /\ (ret.op = "open" /\ cube.url = "None") =>
           (ret.val = Raise("IOError") /\ cube_io = NoReader)
    /\ (ret.op = "open" /\ ~ret.val.ok) => cube_io = NoReader
    /\ cube_io # NoReader => (ret.op = "open" /\ ret.val.ok)

\* C19 witness: an open of "mem:cube" failed with ValueError while the reader was
\* constructed, on a file one byte longer than the cube
C19_Witness ==
    /\ ret.op = "open"
    /\ ret.args[1] = <<"mem:cube">>
    /\ Len(ret.args[2]) = cube.data_bytes + 1
    /\ ret.val = Raise("ValueError")
    /\ cube_io = NoReader

-----------------------------------------------------------------------------
(* Claims about indices outside the geometry, under SpecIndex *)

\* whether the index p is outside [0, n)
C16_Outside(p, n) == p < 0 \/ p >= n

\* C16: out-of-range indices fail loudly. getPixel and the raw accessors raise, and
\* return no value, whenever a line is outside [0, L), a sample outside [0, S) or a band
\* outside [0, B), negative indices included, and flatToLocation(p) fails whenever p is
\* outside [0, L*S*B).
C16_OutOfRangeFails ==
    LET L == cube.lines
        S == cube.samples
        B == cube.bands
        a == ret.args
    IN /\ (ret.op = "getPixel"
            /\ (C16_Outside(a[1], L) \/ C16_Outside(a[2], S) \/ C16_Outside(a[3], B)))
              => ~ret.val.ok
       /\ (ret.op = "getBandRaw" /\ C16_Outside(a[1], B)) => ~ret.val.ok
       /\ (ret.op = "getSpectraRaw" /\ (C16_Outside(a[1], L) \/ C16_Outside(a[2], S)))
              => ~ret.val.ok
       /\ (ret.op = "getFocalPlaneRaw" /\ C16_Outside(a[1], L)) => ~ret.val.ok
       /\ (ret.op = "getFocalPlaneDepthRaw"
            /\ (C16_Outside(a[1], S) \/ C16_Outside(a[2], B)))
              => ~ret.val.ok
       /\ (ret.op = "flatToLocation" /\ C16_Outside(a[1], L * S * B)) => ~ret.val.ok

-----------------------------------------------------------------------------
(* Claims about the interleave tags, under SpecTag *)

\* whether the tag is bip, bil or bsq, compared case-insensitively
C17_Known(tag) == Lower(tag) \in Interleaves

\* the interleave tag the last writeRawData call was to write in
C17_TargetTag == IF ret.args[2] = <<>> THEN cube.interleave ELSE ret.args[2][1]

\* C17: a tag that is not bip, bil or bsq (case-insensitively) is an error wherever it
\* is consumed: open and createCube fail and leave no reader, and writeRawData fails
\* without writing a byte and without calling the progress hook; a tag that differs
\* from bip, bil or bsq only in case is accepted.
C17_TagErrors ==
    /\ (ret.op = "open" /\ cube.url # "None") =>
           IF C17_Known(cube.interleave)
           THEN /\ ret.val # Raise("TypeError")
                /\ (cube.data_offset = 0 /\ Len(ret.args[2]) = cube.data_bytes) =>
                       (ret.val.ok /\ cube_io.cls = Lower(cube.interleave))
           ELSE ~ret.val.ok /\ cube_io = NoReader
    /\ ret.op = "createCube" =>
           IF C17_Known(ret.args.interleave)
           THEN /\ ret.val # Raise("TypeError")
                /\ ret.args.dummy =>
                       (ret.val.ok /\ cube_io.cls = Lower(ret.args.interleave))
           ELSE ~ret.val.ok /\ cube_io = NoReader
    /\ ret.op = "writeRawData" =>
           IF C17_Known(C17_TargetTag)
           THEN ret.val.ok /\ Len(Flatten(sink)) = cube.data_bytes
           ELSE ~ret.val.ok /\ sink = <<>> /\ progressed = <<>>

\* C17 witness: writeRawData to the target "unknown" with a progress hook raised
\* ValueError on a 2 x 2 x 2 cube
C17_Witness ==
    /\ ret.op = "writeRawData"
    /\ ret.args[2] = <<"unknown">>
    /\ ret.args[3] = TRUE
    /\ ret.val = Raise("ValueError")
    /\ cube.data_bytes >= 8

-----------------------------------------------------------------------------
(* Claims about the buffer modes of createCube, under SpecCreate *)

\* the data type the last createCube call names, int16 when it names none
C18_DataType == IF ret.args.datatype = <<>> THEN "int16" ELSE ret.args.datatype[1]

\* the element of the given data at the flat index of (l, s, b)
C18_DataElement(l, s, b) ==
    View(ret.args.data[1], C18_DataType, nativeByteOrder)[
        C2_LocToFlat(Lower(ret.args.interleave), ret.args.lines, ret.args.samples,
                     ret.args.bands, l, s, b) + 1]

\* C18: the buffer modes of createCube. Without dummy and without data the cube holds
\* L*S*B zeros; without dummy and with data, getPixel(l, s, b) is the element of the
\* data at the flat index of (l, s, b); with dummy the reader has no buffer. In every
\* mode the descriptor carries the given geometry, interleave, data type and byte
\* order, and data_bytes is itemsize*L*S*B.
C18_BufferModes ==
    (ret.op = "createCube" /\ Lower(ret.args.interleave) \in Interleaves) =>
        LET a == ret.args
        IN /\ ret.val.ok
           /\ <<cube.lines, cube.samples, cube.bands>> = <<a.lines, a.samples, a.bands>>
           /\ cube.interleave = a.interleave
           /\ cube.data_type = C18_DataType
           /\ cube.byte_order = a.byteorder
           /\ cube.data_bytes = cube.itemsize * a.lines * a.samples * a.bands
           /\ cube.itemsize = ItemSizeOf(C18_DataType)
           /\ a.dummy => (cube_io # NoReader /\ cube_io.raw = <<>>)
           /\ ~a.dummy =>
                  \A l \in Indices(a.lines), s \in Indices(a.samples), b \in Indices(a.bands) :
                      Cube_getPixel(cube_io, l, s, b)
                        = IF a.data = <<>> THEN Ok(0) ELSE Ok(C18_DataElement(l, s, b))

-----------------------------------------------------------------------------
(* Claims about the read operations as a whole, under SpecRead *)

\* one step leaves the value of getPixel at every coordinate as it was
C21_Step ==
    \A l \in Indices(cube.lines), s \in Indices(cube.samples), b \in Indices(cube.bands) :
        Cube_getPixel(cube_io', l, s, b) = Cube_getPixel(cube_io, l, s, b)

\* C21: no read operation modifies the cube's data. Over every step of getPixel, the
\* raw accessors, getBand, getSpectra, getLineOfSpectra and writeRawData, getPixel(l,s,b)
\* keeps its value at every coordinate: the bbl masking is applied to a copy.
C21_ReadsKeepData == [][C21_Step]_vars

\* C21 witness: getSpectra masked band 0 in the array it returned, after a
\* writeRawData, while getPixel still reads the stored non-zero value there
C21_Witness ==
    /\ ret.op = "getSpectra"
    /\ sink # <<>>
    /\ cube.bbl = <<0, 1>>
    /\ ret.val.val[1] = 0
    /\ getPixel(cube_io, ret.args[1], ret.args[2], 0) # 0

-----------------------------------------------------------------------------
(* Claims about the number of blocks and the progress reports, under SpecStream *)

\* ceil(n / d) for d > 0
C23_CeilDiv(n, d) == (n + d - 1) \div d

\* C23: with a progress hook, writeRawData calls it once per block written, with
\* blocks_emitted * 100 / ceil(data_bytes / block_size) where blocks_emitted counts the
\* block just written; the values do not decrease and the last one is 100.
C23_ProgressPercent ==
    (ret.op = "writeRawData" /\ ret.val.ok /\ ret.args[3]) =>
        /\ Len(progressed) = Len(sink)
        /\ \A k \in 1..Len(progressed) :
               progressed[k] = (k * 100) \div C23_CeilDiv(cube.data_bytes, ret.args[1])
        /\ \A k \in 1..(Len(progressed) - 1) : progressed[k] <= progressed[k + 1]
        /\ Len(progressed) > 0 => progressed[Len(progressed)] = 100

\* the sum of the lengths of the first k blocks
RECURSIVE C26_Total(_, _)
C26_Total(blocks, k) == IF k = 0 THEN 0 ELSE Len(blocks[k]) + C26_Total(blocks, k - 1)

\* C26: streaming data_bytes bytes with block size block_size yields exactly
\* ceil(data_bytes / block_size) blocks, none of them empty, whose lengths sum to
\* data_bytes.
C26_BlockCount ==
    (ret.op = "writeRawData" /\ ret.val.ok) =>
        /\ Len(sink) = C23_CeilDiv(cube.data_bytes, ret.args[1])
        /\ \A k \in 1..Len(sink) : Len(sink[k]) >= 1
        /\ C26_Total(sink, Len(sink)) = cube.data_bytes

\* C26 witness: 8 bytes streamed in blocks of 4, a divisor of the total: two full
\* blocks and no leftover
C26_Witness ==
    /\ ret.op = "writeRawData"
    /\ ret.val.ok
    /\ cube.data_bytes = 8
    /\ ret.args[1] = 4
    /\ sink # <<>>
    /\ Len(sink) = 2
    /\ Len(sink[2]) = 4

-----------------------------------------------------------------------------
(* Claims about getLineOfSpectraCopy, under SpecView *)

\* C22 as stated: getLineOfSpectraCopy(l) has shape (bands, samples) and its entry
\* [b][s] is getPixel(l, s, b), for all three interleaves.
C22_BandsBySamples ==
    (ret.op = "getLineOfSpectraCopy" /\ ret.val.ok) =>
        /\ C3_HasShape(ret.val.val, cube.bands, cube.samples)
        /\ \A b \in 0..(cube.bands - 1), s \in 0..(cube.samples - 1) :
               ret.val.val[b + 1][s + 1] = getPixel(cube_io, ret.args[1], s, b)

\* C22: for all three interleaves getLineOfSpectraCopy(l) has shape (samples, bands)
\* and its entry [s][b] is getPixel(l, s, b): the same array whichever interleave the
\* cube is stored in.
C22_SamplesByBands ==
    (ret.op = "getLineOfSpectraCopy" /\ ret.val.ok) =>
        /\ C3_HasShape(ret.val.val, cube.samples, cube.bands)
        /\ \A s \in 0..(cube.samples - 1), b \in 0..(cube.bands - 1) :
               ret.val.val[s + 1][b + 1] = getPixel(cube_io, ret.args[1], s, b)

\* C22 witness: line 1 of a BIL 4 x 5 x 3 cube of distinct elements was copied: five
\* rows of three bands
C22_Witness ==
    /\ ret.op = "getLineOfSpectraCopy"
    /\ ret.val.ok
    /\ cube_io.cls = "bil"
    /\ <<cube.lines, cube.samples, cube.bands>> = <<4, 5, 3>>
    /\ FlatElements(cube_io) = [i \in 1..60 |-> i - 1]
    /\ ret.args = <<1>>
    /\ Len(ret.val.val) = 5
    /\ ret.val.val[5][3] = 29

-----------------------------------------------------------------------------
(* Claims about what verifyAttributes and initialize change, under SpecLife *)

\* a verifyAttributes step changes nothing of the descriptor but scale_factor, bbl,
\* wavelength_units and file_date
C24_Step ==
    ret'.op = "verifyAttributes" =>
        cube' = [cube EXCEPT !.scale_factor = cube'.scale_factor,
                             !.bbl = cube'.bbl,
                             !.wavelength_units = cube'.wavelength_units,
                             !.file_date = cube'.file_date]

\* C24: verifyAttributes never substitutes geometry or data type: lines, samples,
\* bands, interleave, data_type, byte_order, itemsize, data_offset and data_bytes are
\* unchanged, and at most scale_factor, bbl, wavelength_units and the file date change.
C24_VerifyKeepsGeometry == [][C24_Step]_vars

\* C24 witness: verifyAttributes supplied all four defaults on a descriptor with a url
\* and wavelengths in micrometres
C24_Witness ==
    /\ ret.op = "verifyAttributes"
    /\ cube.scale_factor = <<10000>>
    /\ cube.bbl = <<1, 1>>
    /\ cube.wavelengths = <<1, 2>>
    /\ cube.wavelength_units = "um"
    /\ cube.file_date = "mtime"
    /\ cube.data_type = "int16"
    /\ cube.data_bytes = 0

\* an open on a cube that is open already: without a url nothing changes; with a url
\* the reader is dropped, and the reader that replaces it is built on the bytes the
\* url resolves to now
C25_Step ==
    (ret'.op = "open" /\ cube_io # NoReader) =>
        IF ret'.args[1] = <<>>
        THEN /\ ret'.val.ok
             /\ cube' = cube
             /\ cube_io' = cube_io
        ELSE /\ cube'.url = ret'.args[1][1]
             /\ ret'.val.ok => (cube_io' # NoReader /\ cube_io'.mmap = ret'.args[2])
             /\ ~ret'.val.ok => cube_io' = NoReader

\* C25: open() without a url on a cube that is already open does nothing: the reader
\* is kept and no attribute of the descriptor changes; open(url) always discards the
\* reader and builds a new one on the url.
C25_ReopenGuard == [][C25_Step]_vars

\* C25 witness: a cube opened on a file with one trailing byte was opened again
\* without a url while the file had grown to two trailing bytes, and kept its reader
C25_Witness ==
    /\ ret.op = "open"
    /\ ret.val.ok
    /\ ret.args[1] = <<>>
    /\ cube_io # NoReader
    /\ cube.data_offset > 0
    /\ Len(cube_io.mmap) + 1 = Len(ret.args[2])

\* an initialize step sets byte_order to the byteorder argument when one is given and
\* leaves it alone when none is
C30_Step ==
    ret'.op = "initialize" =>
        IF ret'.args[2] = <<>>
        THEN cube'.byte_order = cube.byte_order
        ELSE cube'.byte_order = ret'.args[2][1]

\* C30: initialize(datatype, byteorder) with a byteorder argument sets byte_order to
\* that argument, for 0 (little-endian) as for 1 (big-endian); with the argument
\* omitted byte_order is unchanged.
C30_ByteOrderArgument == [][C30_Step]_vars

-----------------------------------------------------------------------------
(* Claims about the bands the wavelength queries return, under SpecWave *)

\* C27: every band getBandListByWavelength returns, from the window or from a fallback,
\* is in [0, bands) and has bbl = 1: a bad band is never returned.
C27_ReturnedBandsGood ==
    ret.op = "getBandListByWavelength" =>
        \A k \in 1..Len(ret.val.val) :
            /\ ret.val.val[k] \in 0..(cube.bands - 1)
            /\ cube.bbl[ret.val.val[k] + 1] = 1

\* C28: on a cube with at least one band and at least one good band, guessDisplayBands
\* does not fail and returns a non-empty list of band indices in [0, bands).
C28_GuessNeverFails ==
    (ret.op = "guessDisplayBands" /\ cube.bands >= 1 /\ C8_Good # {}) =>
        /\ ret.val.ok
        /\ Len(ret.val.val) > 0
        /\ \A k \in 1..Len(ret.val.val) : ret.val.val[k] \in 0..(cube.bands - 1)

-----------------------------------------------------------------------------
(* Claims about data_bytes, under SpecAssign *)

\* C29: in every state reached from a fresh descriptor by assigning geometry and data
\* type in any order and calling initialize any number of times, data_bytes is not
\* negative, and once a data type and a positive geometry are set and initialize has
\* run, data_bytes is the item size of the data type times lines * samples * bands.
C29_DataBytes ==
    /\ cube.data_bytes >= 0
    /\ (/\ ret.op = "initialize"
        /\ cube.data_type # "None"
        /\ cube.lines > 0 /\ cube.samples > 0 /\ cube.bands > 0) =>
           cube.data_bytes = ItemSizeOf(cube.data_type) * cube.lines * cube.samples * cube.bands

=============================================================================
